---- MODULE Spec2Model ----
(***************************************************************************)
(* Model assembly in pysb-pkpd: the constructors ("macros") of             *)
(* src/src/pysb/pkpd/macros.py acting on the pysb model under              *)
(* construction.                                                           *)
(*                                                                         *)
(* A component name is the sequence of its "_"-separated tokens, so that   *)
(* "_".join and str.format with "_" between the fields are concatenation:  *)
(* "Vmax_{0}_{1}".format("Drug", "CENTRAL") is <<"Vmax","Drug","CENTRAL">>.*)
(* A symbolic expression is a tuple <<operator, operand, ...>> whose       *)
(* leaves refer to components by name.                                     *)
(***************************************************************************)
EXTENDS Integers, Sequences, FiniteSets, TLC

VARIABLES model, hist

vars == <<model, hist>>

\* Number of constructor calls made on one model.
MaxCalls == 2

-----------------------------------------------------------------------------
(* Values passed to constructors *)

\* A numeric argument.
Num(v) == [kind |-> "num", name |-> <<>>, val |-> v]
\* An argument that is an existing Parameter of the model.
Par(n) == [kind |-> "param", name |-> n, val |-> 0]
\* An argument that is an existing Expression of the model.
Expr(n) == [kind |-> "expr", name |-> n, val |-> 0]
\* An argument left at None.
NoneArg == [kind |-> "none", name |-> <<>>, val |-> 0]

\* A species argument: a bare Monomer, which has a name, or a MonomerPattern,
\* which has a monomer and no compartment yet.
Species(mon, form) ==
    IF form = "Monomer"
    THEN [form |-> form, name |-> mon, monomer |-> <<>>, compartment |-> <<>>]
    ELSE [form |-> form, name |-> <<>>, monomer |-> mon, compartment |-> <<>>]

\* A species argument that is a MonomerPattern in a compartment already:
\* Drug() ** CENTRAL.
SpeciesIn(mon, c_name) ==
    [form |-> "MonomerPattern", name |-> <<>>, monomer |-> mon,
     compartment |-> c_name]

\* monomer_name, read off the attribute of a Monomer whatever is passed.
monomer_name_Attribute(species) == species.name

\* if isinstance(species, Monomer): monomer_name = species.name
\* else: monomer_name = species.monomer.name
monomer_name(species) ==
    IF species.form = "Monomer" THEN species.name ELSE species.monomer

-----------------------------------------------------------------------------
(* The model under construction (pysb.Model) *)

EmptyModel ==
    [monomers |-> <<>>, compartments |-> <<>>, parameters |-> <<>>,
     observables |-> <<>>, expressions |-> <<>>, rules |-> <<>>,
     initials |-> <<>>]

Names(seq) == {seq[i].name : i \in DOMAIN seq}

\* model.components: every named component, of every kind.
ComponentNames(m) ==
    Names(m.monomers) \cup Names(m.compartments) \cup Names(m.parameters)
        \cup Names(m.observables) \cup Names(m.expressions) \cup Names(m.rules)

\* The state of one constructor call: the model so far, whether an exception
\* has been raised (and which), and the ComponentSet built so far.
Start(m) == [m |-> m, ok |-> TRUE, err |-> "", ret |-> {}]

\* Raise, carrying on as if nothing had been raised.
Raise_Ignore(st, e) == st

\* Raise, discarding what the model held.
Raise_Discard(st, e) == [st EXCEPT !.ok = FALSE, !.err = e, !.m = EmptyModel]

Raise(st, e) == [st EXCEPT !.ok = FALSE, !.err = e]

\* Export, putting the new component in front of the others.
Export_Front(st, kind, comp) ==
    IF ~st.ok THEN st
    ELSE IF comp.name \in ComponentNames(st.m)
         THEN Raise(st, "ComponentDuplicateNameError")
         ELSE [st EXCEPT !.m[kind] = <<comp>> \o @]

\* Export, whatever the names the model has.
Export_NoCheck(st, kind, comp) ==
    IF ~st.ok THEN st ELSE [st EXCEPT !.m[kind] = Append(@, comp)]

\* A component constructor exports the new component into the model, which
\* raises on a name any component of the model already has.
Export(st, kind, comp) ==
    IF ~st.ok THEN st
    ELSE IF comp.name \in ComponentNames(st.m)
         THEN Raise(st, "ComponentDuplicateNameError")
         ELSE [st EXCEPT !.m[kind] = Append(@, comp)]

Monomer(st, name) == Export(st, "monomers", [name |-> name])

\* Parameter, added whatever the names the model has.
Parameter_Unchecked(st, name, value) ==
    IF ~st.ok THEN st
    ELSE [st EXCEPT !.m.parameters = Append(@, [name |-> name, value |-> value])]

Parameter(st, name, value) ==
    Export(st, "parameters", [name |-> name, value |-> value])

Compartment(st, name, size) ==
    Export(st, "compartments", [name |-> name, size |-> size])

Observable(st, name, pattern) ==
    Export(st, "observables", [name |-> name, pattern |-> pattern])

Expression(st, name, expr) ==
    Export(st, "expressions", [name |-> name, expr |-> expr])

Rule(st, name, rule_expression, rate_forward, rate_reverse) ==
    Export(st, "rules",
           [name |-> name,
            reactant |-> rule_expression.reactant,
            product |-> rule_expression.product,
            reversible |-> rule_expression.reversible,
            rate_forward |-> rate_forward,
            rate_reverse |-> rate_reverse])

\* Initial(pattern, value): an initial condition has no name; the model
\* refuses a second initial condition for the same pattern.
Initial(st, pattern, value) ==
    IF ~st.ok THEN st
    ELSE IF \E i \in DOMAIN st.m.initials : st.m.initials[i].pattern = pattern
         THEN Raise(st, "InvalidInitialConditionError")
         ELSE [st EXCEPT !.m.initials =
                   Append(@, [pattern |-> pattern, value |-> value])]

\* What a constructor returns: its ComponentSet, or nothing when it raised.
Return(st, components) ==
    [m |-> st.m, ok |-> st.ok, err |-> st.err,
     ret |-> IF st.ok THEN components ELSE {}]

-----------------------------------------------------------------------------
(* Symbolic expressions *)

ParameterRef(n) == <<"Parameter", n>>
ExpressionRef(n) == <<"Expression", n>>
ObservableRef(n) == <<"Observable", n>>
Number(v) == <<"Number", v>>
Div(a, b) == <<"Div", a, b>>
Mul(a, b) == <<"Mul", a, b>>
Add(a, b) == <<"Add", a, b>>
Pow(a, b) == <<"Pow", a, b>>
\* Gt, holding at equality too: a >= b.
Gt_Ge(a, b) == <<"Ge", a, b>>

Gt(a, b) == <<"Gt", a, b>>
Log(a) == <<"log", a>>
Piecewise(value, cond, otherwise) == <<"Piecewise", value, cond, otherwise>>

\* Ref, taking every argument for an Expression.
Ref_Expression(arg) == ExpressionRef(arg.name)

\* The rate or value an argument stands for once it is a component.
Ref(arg) ==
    IF arg.kind = "expr" THEN ExpressionRef(arg.name) ELSE ParameterRef(arg.name)

-----------------------------------------------------------------------------
(* Shared idioms of the constructors *)

\* Coerce, wrapping a passed Parameter in a new parameter all the same.
Coerce_Rewrap(st, arg, name) == Parameter(st, name, arg.val)

\* Coerce, never creating the parameter.
Coerce_Skip(st, arg, name) == st

\* X = x; if not isinstance(X, Parameter): X = Parameter(name, x)
Coerce(st, arg, name) ==
    IF arg.kind = "param" THEN st ELSE Parameter(st, name, arg.val)

\* The name of the Parameter X is bound to after the idiom above.
CoercedName(arg, name) == IF arg.kind = "param" THEN arg.name ELSE name

\* ... params_created.add(X)
Created(arg, name) == IF arg.kind = "param" THEN {} ELSE {name}

\* check_for_monomer, leaving the species without its compartment.
check_for_monomer_Unqualified(species, compartment) ==
    [monomer |-> monomer_name(species), compartment |-> <<>>]

\* species ** compartment, refused for a pattern that is in a compartment
\* already (pysb raises CompartmentAlreadySpecifiedError).
Qualify(st, species) ==
    IF species.form # "Monomer" /\ species.compartment # <<>>
    THEN Raise(st, "CompartmentAlreadySpecifiedError")
    ELSE st

\* species() ** compartment for a Monomer, species ** compartment for a
\* pattern; as a complex pattern.
check_for_monomer(species, compartment) ==
    IF species.form = "Monomer"
    THEN [monomer |-> species.name, compartment |-> compartment.name]
    ELSE [monomer |-> species.monomer, compartment |-> compartment.name]

\* Irreversible, with the two sides of the rule exchanged.
Irreversible_Swapped(reactant, product) ==
    [reactant |-> product, product |-> reactant, reversible |-> FALSE]

\* species >> None, None >> species, s1 >> s2, s1 | s2
Irreversible(reactant, product) ==
    [reactant |-> reactant, product |-> product, reversible |-> FALSE]

\* Reversible, yielding a one-way rule.
Reversible_OneWay(reactant, product) ==
    [reactant |-> reactant, product |-> product, reversible |-> FALSE]

Reversible(reactant, product) ==
    [reactant |-> reactant, product |-> product, reversible |-> TRUE]

\* pysb.macros._macro_rule(rule_prefix, rule_expression, klist, ksuffixes,
\* name_func): the rule is named rule_prefix_<name>; rates that are all
\* Parameters or Expressions are used as they are, rates that are all numbers
\* become parameters <rule name>_<suffix>; a mixed list is refused.
macro_rule(st, rule_prefix, name, rule_expression, klist, ksuffixes) ==
    LET r_name == rule_prefix \o name
        n == IF rule_expression.reversible THEN 2 ELSE 1
        k_name(i) == r_name \o ksuffixes[i]
    IN IF ~st.ok THEN st
       ELSE IF Len(klist) # n \/ Len(ksuffixes) # n
       THEN Raise(st, "ValueError")
       ELSE IF \A i \in 1..n : klist[i].kind \in {"param", "expr"}
       THEN LET r == Rule(st, r_name, rule_expression, Ref(klist[1]),
                          IF n = 2 THEN Ref(klist[2]) ELSE <<"None">>)
            IN [r EXCEPT !.ret = {r_name}]
       ELSE IF \A i \in 1..n : klist[i].kind = "num"
       THEN LET s1 == Parameter(st, k_name(1), klist[1].val)
                s2 == IF n = 2 THEN Parameter(s1, k_name(2), klist[2].val) ELSE s1
                r == Rule(s2, r_name, rule_expression, ParameterRef(k_name(1)),
                          IF n = 2 THEN ParameterRef(k_name(2)) ELSE <<"None">>)
            IN [r EXCEPT !.ret = {r_name} \cup {k_name(i) : i \in 1..n}]
       ELSE Raise(st, "ValueError")

-----------------------------------------------------------------------------
(* Monomer and compartment builders *)

drug_monomer(m, name) ==
    LET s1 == Monomer(Start(m), name)
    IN Return(s1, {name})

\* V, without its prefix: the name of the compartment itself.
V_Plain(c_name) == c_name

\* "V_{0}".format(c1_name)
V(c_name) == <<"V">> \o c_name

one_compartment(m, c1_name, c1_size) ==
    LET s1 == Coerce(Start(m), c1_size, V(c1_name))
        s2 == Compartment(s1, c1_name, CoercedName(c1_size, V(c1_name)))
    IN Return(s2, {c1_name} \cup Created(c1_size, V(c1_name)))

two_compartments(m, c1_name, c1_size, c2_name, c2_size) ==
    LET s1 == Coerce(Start(m), c1_size, V(c1_name))
        s2 == Coerce(s1, c2_size, V(c2_name))
        s3 == Compartment(s2, c1_name, CoercedName(c1_size, V(c1_name)))
        s4 == Compartment(s3, c2_name, CoercedName(c2_size, V(c2_name)))
    IN Return(s4, {c1_name, c2_name} \cup Created(c1_size, V(c1_name))
                      \cup Created(c2_size, V(c2_name)))

three_compartments(m, c1_name, c1_size, c2_name, c2_size, c3_name, c3_size) ==
    LET s1 == Coerce(Start(m), c1_size, V(c1_name))
        s2 == Coerce(s1, c2_size, V(c2_name))
        s3 == Coerce(s2, c3_size, V(c3_name))
        s4 == Compartment(s3, c1_name, CoercedName(c1_size, V(c1_name)))
        s5 == Compartment(s4, c2_name, CoercedName(c2_size, V(c2_name)))
        s6 == Compartment(s5, c3_name, CoercedName(c3_size, V(c3_name)))
    IN Return(s6, {c1_name, c2_name, c3_name} \cup Created(c1_size, V(c1_name))
                      \cup Created(c2_size, V(c2_name))
                      \cup Created(c3_size, V(c3_name)))

\* Parameter(name, value) called by the user of the library, as the preset
\* templates do before they call a constructor.
new_parameter(m, name, value) ==
    LET s1 == Parameter(Start(m), name, value)
    IN Return(s1, {name})

-----------------------------------------------------------------------------
(* Elimination, clearance and transport constructors *)

\* SpeciesCompartment, leaving the compartment out of the name.
SpeciesCompartment_NoCompartment(species, compartment) == monomer_name(species)

\* SpeciesCompartment, the compartment first.
SpeciesCompartment_Reversed(species, compartment) == compartment.name \o monomer_name(species)

\* "_".join([monomer_name, comp_name])
SpeciesCompartment(species, compartment) == monomer_name(species) \o compartment.name

eliminate(m, species, compartment, kel) ==
    LET sp == check_for_monomer(species, compartment)
        components == macro_rule(Qualify(Start(m), species), <<"eliminate">>,
                                 SpeciesCompartment(species, compartment),
                                 Irreversible(<<sp>>, <<>>), <<kel>>, <<<<"k">>>>)
    IN Return(components, components.ret)

\* mm_rate, without the observable: Vmax / Km.
mm_rate_Linear(Vmax, obs_expr, Km) == Div(ParameterRef(Vmax), ParameterRef(Km))

\* Vmax / (obs_expr + Km)
mm_rate(Vmax, obs_expr, Km) ==
    Div(ParameterRef(Vmax), Add(ObservableRef(obs_expr), ParameterRef(Km)))

eliminate_mm(m, species, compartment, vmax, km) ==
    LET sc == SpeciesCompartment(species, compartment)
        sp == check_for_monomer(species, compartment)
        Vmax_name == <<"Vmax">> \o sc
        Km_name == <<"Km">> \o sc
        obs_name == <<"", "obs", "expr">> \o sc
        k_name == <<"k", "expr">> \o sc
        Vmax == CoercedName(vmax, Vmax_name)
        Km == CoercedName(km, Km_name)
        s1 == Coerce(Qualify(Start(m), species), vmax, Vmax_name)
        s2 == Coerce(s1, km, Km_name)
        s3 == Observable(s2, obs_name, sp)
        s4 == Expression(s3, k_name, mm_rate(Vmax, obs_name, Km))
        components == macro_rule(s4, <<"eliminate", "mm">>, sc,
                                 Irreversible(<<sp>>, <<>>),
                                 <<Expr(k_name)>>, <<<<"k">>>>)
    IN Return(components,
              components.ret \cup Created(vmax, Vmax_name)
                  \cup Created(km, Km_name) \cup {obs_name, k_name})

\* clearance_rate, upside down: Vcomp / CL.
clearance_rate_Inverted(CL, Vcomp) == Div(ParameterRef(Vcomp), ParameterRef(CL))

\* CL / Vcomp
clearance_rate(CL, Vcomp) == Div(ParameterRef(CL), ParameterRef(Vcomp))

clearance(m, species, compartment, cl) ==
    LET sc == SpeciesCompartment(species, compartment)
        sp == check_for_monomer(species, compartment)
        CL_name == <<"CL">> \o sc
        k_name == <<"k", "CL", "expr">> \o sc
        CL == CoercedName(cl, CL_name)
        s1 == Coerce(Qualify(Start(m), species), cl, CL_name)
        Vcomp == compartment.size
        s2 == Expression(s1, k_name, clearance_rate(CL, Vcomp))
        components == macro_rule(s2, <<"clearance">>, sc,
                                 Irreversible(<<sp>>, <<>>),
                                 <<Expr(k_name)>>, <<<<"k">>>>)
    IN Return(components,
              components.ret \cup {k_name} \cup Created(cl, CL_name))

\* SpeciesFromTo, leaving the target compartment out of the name.
SpeciesFromTo_NoTarget(species, c1, c2) == monomer_name(species) \o c1.name \o <<"to">>

\* "_".join([monomer_name, c1.name, "to", c2.name])
SpeciesFromTo(species, c1, c2) ==
    monomer_name(species) \o c1.name \o <<"to">> \o c2.name

distribute(m, species, c1, c2, klist) ==
    LET s1 == check_for_monomer(species, c1)
        s2 == check_for_monomer(species, c2)
        components == macro_rule(Qualify(Start(m), species), <<"distribute">>,
                                 SpeciesFromTo(species, c1, c2),
                                 Reversible(<<s1>>, <<s2>>), klist,
                                 <<<<"kf">>, <<"kr">>>>)
    IN Return(components, components.ret)

transfer(m, species, c1, c2, k) ==
    LET s1 == check_for_monomer(species, c1)
        s2 == check_for_monomer(species, c2)
        components == macro_rule(Qualify(Start(m), species), <<"transfer">>,
                                 SpeciesFromTo(species, c1, c2),
                                 Irreversible(<<s1>>, <<s2>>), <<k>>,
                                 <<<<"k">>>>)
    IN Return(components, components.ret)

-----------------------------------------------------------------------------
(* Pharmacodynamic (effect) constructors *)

\* (Emax * obs_expr) / (obs_expr + EC50)
emax_effect(Emax, obs_expr, EC50) ==
    Div(Mul(ParameterRef(Emax), ObservableRef(obs_expr)),
        Add(ObservableRef(obs_expr), ParameterRef(EC50)))

emax(m, species, compartment, emax_arg, ec50) ==
    LET sc == SpeciesCompartment(species, compartment)
        sp == check_for_monomer(species, compartment)
        Emax_name == <<"Emax">> \o sc
        EC50_name == <<"EC50">> \o sc
        obs_name == <<"", "obs", "emax", "expr">> \o sc
        expr_name == <<"Emax", "expr">> \o sc
        s1 == Coerce(Qualify(Start(m), species), emax_arg, Emax_name)
        s2 == Coerce(s1, ec50, EC50_name)
        s3 == Observable(s2, obs_name, sp)
        s4 == Expression(s3, expr_name,
                         emax_effect(CoercedName(emax_arg, Emax_name), obs_name,
                                     CoercedName(ec50, EC50_name)))
    IN Return(s4, {obs_name, expr_name} \cup Created(emax_arg, Emax_name)
                      \cup Created(ec50, EC50_name))

\* (Emax * obs_expr**n) / (obs_expr**n + EC50**n)
sigmoidal_emax_effect(Emax, obs_expr, EC50, hill_coeff) ==
    Div(Mul(ParameterRef(Emax),
            Pow(ObservableRef(obs_expr), ParameterRef(hill_coeff))),
        Add(Pow(ObservableRef(obs_expr), ParameterRef(hill_coeff)),
            Pow(ParameterRef(EC50), ParameterRef(hill_coeff))))

sigmoidal_emax(m, species, compartment, emax_arg, ec50, n) ==
    LET sc == SpeciesCompartment(species, compartment)
        sp == check_for_monomer(species, compartment)
        Emax_name == <<"Emax">> \o sc
        EC50_name == <<"EC50">> \o sc
        n_name == <<"n">> \o sc
        obs_name == <<"", "obs", "emax", "expr">> \o sc
        expr_name == <<"Emax", "expr">> \o sc
        s1 == Coerce(Qualify(Start(m), species), emax_arg, Emax_name)
        s2 == Coerce(s1, ec50, EC50_name)
        s3 == Coerce(s2, n, n_name)
        s4 == Observable(s3, obs_name, sp)
        s5 == Expression(s4, expr_name,
                         sigmoidal_emax_effect(CoercedName(emax_arg, Emax_name),
                                               obs_name,
                                               CoercedName(ec50, EC50_name),
                                               CoercedName(n, n_name)))
    IN Return(s5, {obs_name, expr_name} \cup Created(emax_arg, Emax_name)
                      \cup Created(ec50, EC50_name) \cup Created(n, n_name))

\* M * obs_expr + B
linear_effect_expr(M, obs_expr, B) ==
    Add(Mul(ParameterRef(M), ObservableRef(obs_expr)), ParameterRef(B))

linear_effect(m, species, compartment, slope, intercept) ==
    LET sc == SpeciesCompartment(species, compartment)
        sp == check_for_monomer(species, compartment)
        M_name == <<"LinEffect", "Slope">> \o sc
        B_name == <<"LinEffect", "Intercept">> \o sc
        obs_name == <<"", "obs", "lineffect", "expr">> \o sc
        expr_name == <<"LinearEffect", "expr">> \o sc
        s1 == Coerce(Qualify(Start(m), species), slope, M_name)
        s2 == Coerce(s1, intercept, B_name)
        s3 == Observable(s2, obs_name, sp)
        s4 == Expression(s3, expr_name,
                         linear_effect_expr(CoercedName(slope, M_name), obs_name,
                                            CoercedName(intercept, B_name)))
    IN Return(s4, {obs_name, expr_name} \cup Created(slope, M_name)
                      \cup Created(intercept, B_name))

\* sympy.log(obs_expr) and sympy.log(obs_expr, base) = log(obs_expr)/log(base);
\* the base is used as it is given, a number staying a number.
sympy_log(obs_expr, base) ==
    IF base.kind = "none" THEN Log(ObservableRef(obs_expr))
    ELSE Div(Log(ObservableRef(obs_expr)),
             Log(IF base.kind = "num" THEN Number(base.val) ELSE Ref(base)))

\* M * sympy.log(obs_expr[, base]) + B
loglinear_effect_expr(M, obs_expr, B, base) ==
    Add(Mul(ParameterRef(M), sympy_log(obs_expr, base)), ParameterRef(B))

loglinear_effect(m, species, compartment, slope, intercept, base) ==
    LET sc == SpeciesCompartment(species, compartment)
        sp == check_for_monomer(species, compartment)
        M_name == <<"LogLinEffect", "Slope">> \o sc
        B_name == <<"LogLinEffect", "Intercept">> \o sc
        obs_name == <<"", "obs", "loglinearffect", "expr">> \o sc
        expr_name == <<"LogLinearEffect", "expr">> \o sc
        s1 == Coerce(Qualify(Start(m), species), slope, M_name)
        s2 == Coerce(s1, intercept, B_name)
        s3 == Observable(s2, obs_name, sp)
        s4 == Expression(s3, expr_name,
                         loglinear_effect_expr(CoercedName(slope, M_name),
                                               obs_name,
                                               CoercedName(intercept, B_name),
                                               base))
    IN Return(s4, {obs_name, expr_name} \cup Created(slope, M_name)
                      \cup Created(intercept, B_name))

\* Piecewise((E_fixed, obs_expr > C_threshold), (0, True))
fixed_effect_expr(E_fixed, obs_expr, C_threshold) ==
    Piecewise(ParameterRef(E_fixed),
              Gt(ObservableRef(obs_expr), ParameterRef(C_threshold)),
              Number(0))

fixed_effect(m, species, compartment, e_fixed, c_threshold) ==
    LET sc == SpeciesCompartment(species, compartment)
        sp == check_for_monomer(species, compartment)
        E_name == <<"Efixed">> \o sc
        C_name == <<"Cthreshold">> \o sc
        obs_name == <<"", "obs", "fixedeffect", "expr">> \o sc
        expr_name == <<"FixedEffect", "expr">> \o sc
        s1 == Coerce(Qualify(Start(m), species), e_fixed, E_name)
        s2 == Coerce(s1, c_threshold, C_name)
        s3 == Observable(s2, obs_name, sp)
        s4 == Expression(s3, expr_name,
                         fixed_effect_expr(CoercedName(e_fixed, E_name), obs_name,
                                           CoercedName(c_threshold, C_name)))
    IN Return(s4, {obs_name, expr_name} \cup Created(e_fixed, E_name)
                      \cup Created(c_threshold, C_name))

-----------------------------------------------------------------------------
(* Dose constructors *)

\* dose_per_volume, not divided by the compartment size.
dose_per_volume_Undivided(Dose, Vcomp) == ParameterRef(Dose)

\* Dose / Vcomp
dose_per_volume(Dose, Vcomp) == Div(ParameterRef(Dose), ParameterRef(Vcomp))

dose_bolus(m, species, compartment, dose) ==
    LET sc == SpeciesCompartment(species, compartment)
        sp == check_for_monomer(species, compartment)
        Dose_name == <<"dose">> \o sc
        expr_name == <<"expr">> \o sc \o <<"0">>
        Vcomp == compartment.size
        s1 == Coerce(Qualify(Start(m), species), dose, Dose_name)
        s2 == Expression(s1, expr_name,
                         dose_per_volume(CoercedName(dose, Dose_name), Vcomp))
        s3 == Initial(s2, sp, ExpressionRef(expr_name))
    IN Return(s3, Created(dose, Dose_name) \cup {expr_name})

dose_infusion(m, species, compartment, dose) ==
    LET sc == SpeciesCompartment(species, compartment)
        sp == check_for_monomer(species, compartment)
        Dose_name == <<"dose">> \o sc
        expr_name == <<"expr">> \o sc \o <<"k0">>
        Vcomp == compartment.size
        s1 == Coerce(Qualify(Start(m), species), dose, Dose_name)
        s2 == Expression(s1, expr_name,
                         dose_per_volume(CoercedName(dose, Dose_name), Vcomp))
        components == macro_rule(s2, <<"infuse">>, sc,
                                 Irreversible(<<>>, <<sp>>),
                                 <<Expr(expr_name)>>, <<<<"k0">>>>)
    IN Return(components,
              components.ret \cup Created(dose, Dose_name) \cup {expr_name})

\* 'precursor_0'
precursor_0_name == <<"precursor", "0">>

\* precursor_amount, without the bioavailability: dose_expr alone.
precursor_amount_NoF(dose_expr, F) == ExpressionRef(dose_expr)

\* dose_expr * F
precursor_amount(dose_expr, F) == Mul(ExpressionRef(dose_expr), ParameterRef(F))

dose_absorbed(m, species, compartment, dose, ka, f) ==
    LET sc == SpeciesCompartment(species, compartment)
        sp == check_for_monomer(species, compartment)
        precursor_name == sc \o <<"precursor">>
        pre == [monomer |-> precursor_name, compartment |-> compartment.name]
        Dose_name == <<"dose">> \o sc
        expr_name == <<"expr">> \o sc \o <<"dose">>
        ka_name == <<"ka">> \o sc
        F_name == <<"F">> \o sc
        Vcomp == compartment.size
        s1 == Monomer(Qualify(Start(m), species), precursor_name)
        s2 == Coerce(s1, dose, Dose_name)
        s3 == Expression(s2, expr_name,
                         dose_per_volume(CoercedName(dose, Dose_name), Vcomp))
        s4 == Coerce(s3, ka, ka_name)
        s5 == Coerce(s4, f, F_name)
        s6 == Expression(s5, precursor_0_name,
                         precursor_amount(expr_name, CoercedName(f, F_name)))
        s7 == Initial(s6, pre, ExpressionRef(precursor_0_name))
        components == macro_rule(s7, <<"absorb">>, sc,
                                 Irreversible(<<pre>>, <<sp>>),
                                 <<Par(CoercedName(ka, ka_name))>>, <<<<"ka">>>>)
    IN Return(components,
              components.ret \cup Created(dose, Dose_name) \cup {expr_name}
                  \cup Created(ka, ka_name) \cup Created(f, F_name)
                  \cup {precursor_name})

-----------------------------------------------------------------------------
(* Inputs *)

Drug == <<"Drug">>
CENTRAL == <<"CENTRAL">>
PERIPHERAL == <<"PERIPHERAL">>
DEEPPERIPHERAL == <<"DEEPPERIPHERAL">>
\* A compartment whose name ends in the token "k".
CENTRAL_k == <<"CENTRAL", "k">>
\* A parameter the user of the library declares and passes to constructors.
P1 == <<"P1">>

MonomerNames == {Drug, <<"D2">>}
CompartmentNames == {CENTRAL, PERIPHERAL, DEEPPERIPHERAL}

\* The forms a species argument is passed in.
SpeciesForms == {"Monomer"}

\* The species and compartments of the model a constructor can be given.
SpeciesOf(m) ==
    {Species(m.monomers[i].name, f) : i \in DOMAIN m.monomers, f \in SpeciesForms}
CompartmentsOf(m) == {m.compartments[i] : i \in DOMAIN m.compartments}

\* A value-or-parameter argument: the number v, or the user's Parameter.
Arg(m, v) ==
    {Num(v)} \cup {Par(m.parameters[i].name) :
                     i \in {j \in DOMAIN m.parameters : m.parameters[j].name = P1}}

-----------------------------------------------------------------------------
(* The state machine *)

\* Model(); drug_monomer(); two_compartments()
BaseModel ==
    two_compartments(drug_monomer(EmptyModel, Drug).m,
                     CENTRAL, Num(1), PERIPHERAL, Num(1)).m

\* Model(); drug_monomer(); one_compartment("CENTRAL");
\* one_compartment("CENTRAL_k")
TaggedModel ==
    one_compartment(
        one_compartment(drug_monomer(EmptyModel, Drug).m, CENTRAL, Num(1)).m,
        CENTRAL_k, Num(1)).m

Init ==
    /\ model \in {EmptyModel, BaseModel, TaggedModel}
    /\ hist = <<>>

\* One call: the model becomes what the constructor left, whether it returned
\* or raised, and the call is recorded with the model it was made on.
Call(op, sp, comps, args, res) ==
    /\ Len(hist) < MaxCalls
    /\ model' = res.m
    /\ hist' = Append(hist, [op |-> op, sp |-> sp, comps |-> comps,
                             args |-> args, ok |-> res.ok, err |-> res.err,
                             ret |-> res.ret, pre |-> model])

NewParameter ==
    Call("Parameter", <<>>, <<>>, <<Num(1)>>, new_parameter(model, P1, 1))

DrugMonomer ==
    \E name \in MonomerNames :
        Call("drug_monomer", name, <<>>, <<>>, drug_monomer(model, name))

OneCompartment ==
    \E c1 \in CompartmentNames : \E z1 \in Arg(model, 1) :
        Call("one_compartment", <<>>, <<c1>>, <<z1>>,
             one_compartment(model, c1, z1))

TwoCompartments ==
    \E z1 \in Arg(model, 1) : \E z2 \in Arg(model, 1) :
        Call("two_compartments", <<>>, <<CENTRAL, PERIPHERAL>>, <<z1, z2>>,
             two_compartments(model, CENTRAL, z1, PERIPHERAL, z2))

ThreeCompartments ==
    \E z1 \in Arg(model, 1) : \E z2 \in Arg(model, 1) : \E z3 \in Arg(model, 1) :
        Call("three_compartments", <<>>,
             <<CENTRAL, PERIPHERAL, DEEPPERIPHERAL>>, <<z1, z2, z3>>,
             three_compartments(model, CENTRAL, z1, PERIPHERAL, z2,
                                DEEPPERIPHERAL, z3))

Eliminate ==
    \E s \in SpeciesOf(model) : \E c \in CompartmentsOf(model) :
    \E kel \in Arg(model, 1) :
        Call("eliminate", monomer_name(s), <<c.name>>, <<kel>>,
             eliminate(model, s, c, kel))

EliminateMM ==
    \E s \in SpeciesOf(model) : \E c \in CompartmentsOf(model) :
    \E vmax \in Arg(model, 10) : \E km \in Arg(model, 100) :
        Call("eliminate_mm", monomer_name(s), <<c.name>>, <<vmax, km>>,
             eliminate_mm(model, s, c, vmax, km))

Clearance ==
    \E s \in SpeciesOf(model) : \E c \in CompartmentsOf(model) :
    \E cl \in Arg(model, 10) :
        Call("clearance", monomer_name(s), <<c.name>>, <<cl>>,
             clearance(model, s, c, cl))

Distribute ==
    \E s \in SpeciesOf(model) :
    \E c1 \in CompartmentsOf(model) : \E c2 \in CompartmentsOf(model) \ {c1} :
    \E kf \in Arg(model, 1) : \E kr \in Arg(model, 2) :
        Call("distribute", monomer_name(s), <<c1.name, c2.name>>, <<kf, kr>>,
             distribute(model, s, c1, c2, <<kf, kr>>))

Transfer ==
    \E s \in SpeciesOf(model) :
    \E c1 \in CompartmentsOf(model) : \E c2 \in CompartmentsOf(model) \ {c1} :
    \E k \in Arg(model, 1) :
        Call("transfer", monomer_name(s), <<c1.name, c2.name>>, <<k>>,
             transfer(model, s, c1, c2, k))

Emax ==
    \E s \in SpeciesOf(model) : \E c \in CompartmentsOf(model) :
    \E e \in Arg(model, 10) : \E ec50 \in Arg(model, 100) :
        Call("emax", monomer_name(s), <<c.name>>, <<e, ec50>>,
             emax(model, s, c, e, ec50))

SigmoidalEmax ==
    \E s \in SpeciesOf(model) : \E c \in CompartmentsOf(model) :
    \E e \in Arg(model, 10) : \E ec50 \in Arg(model, 100) :
    \E n \in Arg(model, 2) :
        Call("sigmoidal_emax", monomer_name(s), <<c.name>>, <<e, ec50, n>>,
             sigmoidal_emax(model, s, c, e, ec50, n))

LinearEffect ==
    \E s \in SpeciesOf(model) : \E c \in CompartmentsOf(model) :
    \E slope \in Arg(model, 1) : \E intercept \in Arg(model, 0) :
        Call("linear_effect", monomer_name(s), <<c.name>>, <<slope, intercept>>,
             linear_effect(model, s, c, slope, intercept))

LoglinearEffect ==
    \E s \in SpeciesOf(model) : \E c \in CompartmentsOf(model) :
    \E slope \in Arg(model, 1) : \E intercept \in Arg(model, 0) :
    \E base \in {NoneArg, Num(2)} :
        Call("loglinear_effect", monomer_name(s), <<c.name>>,
             <<slope, intercept, base>>,
             loglinear_effect(model, s, c, slope, intercept, base))

FixedEffect ==
    \E s \in SpeciesOf(model) : \E c \in CompartmentsOf(model) :
    \E e_fixed \in Arg(model, 1) : \E c_threshold \in Arg(model, 25) :
        Call("fixed_effect", monomer_name(s), <<c.name>>, <<e_fixed, c_threshold>>,
             fixed_effect(model, s, c, e_fixed, c_threshold))

DoseBolus ==
    \E s \in SpeciesOf(model) : \E c \in CompartmentsOf(model) :
    \E dose \in Arg(model, 100) :
        Call("dose_bolus", monomer_name(s), <<c.name>>, <<dose>>,
             dose_bolus(model, s, c, dose))

DoseInfusion ==
    \E s \in SpeciesOf(model) : \E c \in CompartmentsOf(model) :
    \E dose \in Arg(model, 2) :
        Call("dose_infusion", monomer_name(s), <<c.name>>, <<dose>>,
             dose_infusion(model, s, c, dose))

DoseAbsorbed ==
    \E s \in SpeciesOf(model) : \E c \in CompartmentsOf(model) :
    \E dose \in Arg(model, 10) : \E ka \in Arg(model, 1) : \E f \in Arg(model, 1) :
        Call("dose_absorbed", monomer_name(s), <<c.name>>, <<dose, ka, f>>,
             dose_absorbed(model, s, c, dose, ka, f))

Next ==
    \/ NewParameter
    \/ DrugMonomer
    \/ OneCompartment
    \/ TwoCompartments
    \/ ThreeCompartments
    \/ Eliminate
    \/ EliminateMM
    \/ Clearance
    \/ Distribute
    \/ Transfer
    \/ Emax
    \/ SigmoidalEmax
    \/ LinearEffect
    \/ LoglinearEffect
    \/ FixedEffect
    \/ DoseBolus
    \/ DoseInfusion
    \/ DoseAbsorbed

Spec == Init /\ [][Next]_vars

-----------------------------------------------------------------------------
(* Preset model templates (src/src/pysb/pkpd/standard.py) *)

\* Number of template calls made in one run.
MaxBuilds == 1

\* The number n/d: the templates' defaults are not whole numbers.
Rational(n, d) == [num |-> n, den |-> d]
\* Positive, holding of no number.
Positive_Never(x) == FALSE

\* x > 0
Positive(x) == x.num > 0

\* A dict argument; val maps its keys to their values (for pd_model, val is
\* the sequence of its (key, value) items, in the order of the dict).
Dict(d) == [kind |-> "dict", name |-> <<>>, val |-> d]

SeqRange(seq) == {seq[i] : i \in DOMAIN seq}

DOSING_OPTIONS ==
    ("iv-bolus" :> "dose_bolus") @@ ("iv-infusion" :> "dose_infusion")
        @@ ("oral" :> "dose_absorbed")

PD_MODELS ==
    ("emax" :> "emax") @@ ("sigmoidal-emax" :> "sigmoidal_emax")
        @@ ("linear" :> "linear_effect") @@ ("log-linear" :> "loglinear_effect")
        @@ ("fixed" :> "fixed_effect")

PD_MODEL_ARGS ==
    ("emax" :> <<"emax", "ec50">>)
        @@ ("sigmoidal-emax" :> <<"emax", "ec50", "n">>)
        @@ ("linear" :> <<"slope", "intercept">>)
        @@ ("log-linear" :> <<"slope", "intercept">>)
        @@ ("fixed" :> <<"e_fixed", "c_threshold">>)

\* The keyword parameters of the constructors the registries hold, after
\* the positional (species, compartment[, dose]): those without a default
\* and those with one.
Signature ==
    [dose_bolus |-> [required |-> {}, optional |-> {}],
     dose_infusion |-> [required |-> {}, optional |-> {}],
     dose_absorbed |-> [required |-> {"ka", "f"}, optional |-> {}],
     emax |-> [required |-> {"emax", "ec50"}, optional |-> {}],
     sigmoidal_emax |-> [required |-> {"emax", "ec50", "n"}, optional |-> {}],
     linear_effect |-> [required |-> {"slope"}, optional |-> {"intercept"}],
     loglinear_effect |->
         [required |-> {"slope"}, optional |-> {"intercept", "base"}],
     fixed_effect |-> [required |-> {"e_fixed", "c_threshold"}, optional |-> {}]]

\* f(..., **kwargs) binds: no parameter without a default is missing, and
\* no keyword is unexpected. Python raises TypeError otherwise.
Binds(f, kwargs) ==
    /\ Signature[f].required \subseteq DOMAIN kwargs
    /\ DOMAIN kwargs \subseteq Signature[f].required \cup Signature[f].optional

\* The value a keyword parameter is bound to: the number passed, or the
\* default of the signature.
Keyword(kwargs, name, default) ==
    IF name \in DOMAIN kwargs THEN Num(kwargs[name]) ELSE default

\* A step of a template body: its outcome res on the model the steps before
\* it left, and not run at all once one of them has raised.
Then(st, res) == IF st.ok THEN res ELSE st

\* The globals Drug, CENTRAL, PERIPHERAL, ... that the components export.
MonomerNamed(m, name) == Species(name, "Monomer")
CompartmentNamed(m, name) == CHOOSE c \in CompartmentsOf(m) : c.name = name

\* dosing_step, giving an iv-bolus whatever the route.
dosing_step_Bolus(m, dose_route, dose_parameters) ==
    dose_bolus(m, MonomerNamed(m, Drug), CompartmentNamed(m, CENTRAL),
               Par(<<"dose">>))

\* DOSING_OPTIONS[dose_route](Drug, CENTRAL, dose, **dose_parameters)
dosing_step(m, dose_route, dose_parameters) ==
    IF dose_route \notin DOMAIN DOSING_OPTIONS
    THEN Raise(Start(m), "KeyError")
    ELSE LET f == DOSING_OPTIONS[dose_route]
             kwargs == IF dose_parameters.kind = "none" THEN <<>>
                       ELSE dose_parameters.val
             species == MonomerNamed(m, Drug)
             compartment == CompartmentNamed(m, CENTRAL)
             dose == Par(<<"dose">>)
         IN IF ~Binds(f, kwargs) THEN Raise(Start(m), "TypeError")
            ELSE IF f = "dose_bolus"
            THEN dose_bolus(m, species, compartment, dose)
            ELSE IF f = "dose_infusion"
            THEN dose_infusion(m, species, compartment, dose)
            ELSE dose_absorbed(m, species, compartment, dose,
                               Num(kwargs["ka"]), Num(kwargs["f"]))

\* The clearance step, taken whatever the clearance is.
clearance_step_Always(m, clearance_arg) ==
    LET s1 == new_parameter(m, <<"CL">>, clearance_arg)
    IN Then(s1, clearance(s1.m, MonomerNamed(s1.m, Drug),
                          CompartmentNamed(s1.m, CENTRAL), Par(<<"CL">>)))

\* if clearance > 0: Parameter("CL", clearance);
\*                   macros.clearance(Drug, CENTRAL, CL)
clearance_step(m, clearance_arg) ==
    IF Positive(clearance_arg)
    THEN LET s1 == new_parameter(m, <<"CL">>, clearance_arg)
         IN Then(s1, clearance(s1.m, MonomerNamed(s1.m, Drug),
                               CompartmentNamed(s1.m, CENTRAL), Par(<<"CL">>)))
    ELSE Start(m)

\* PD_MODELS[key](Drug, CENTRAL, **value)
pd_call(m, key, value) ==
    IF key \notin DOMAIN PD_MODELS
    THEN Raise(Start(m), "KeyError")
    ELSE LET f == PD_MODELS[key]
             species == MonomerNamed(m, Drug)
             compartment == CompartmentNamed(m, CENTRAL)
             zero == Num(Rational(0, 1))
         IN IF ~Binds(f, value) THEN Raise(Start(m), "TypeError")
            ELSE IF f = "emax"
            THEN emax(m, species, compartment,
                      Num(value["emax"]), Num(value["ec50"]))
            ELSE IF f = "sigmoidal_emax"
            THEN sigmoidal_emax(m, species, compartment, Num(value["emax"]),
                                Num(value["ec50"]), Num(value["n"]))
            ELSE IF f = "linear_effect"
            THEN linear_effect(m, species, compartment, Num(value["slope"]),
                               Keyword(value, "intercept", zero))
            ELSE IF f = "loglinear_effect"
            THEN loglinear_effect(m, species, compartment, Num(value["slope"]),
                                  Keyword(value, "intercept", zero),
                                  Keyword(value, "base", NoneArg))
            ELSE fixed_effect(m, species, compartment, Num(value["e_fixed"]),
                              Num(value["c_threshold"]))

\* for key, value in pd_model.items(): PD_MODELS[key](Drug, CENTRAL, **value)
RECURSIVE pd_items(_, _)
pd_items(st, items) ==
    IF items = <<>> THEN st
    ELSE pd_items(Then(st, pd_call(st.m, Head(items)[1], Head(items)[2])),
                  Tail(items))

\* pd_step, skipping the PD model.
pd_step_Skip(m, pd_model) == Start(m)

\* if pd_model is not None: ...
pd_step(m, pd_model) ==
    IF pd_model.kind = "none" THEN Start(m)
    ELSE pd_items(Start(m), pd_model.val)

\* The rest of each template after its compartments: the dose, the
\* clearance and the PD model.
dose_clearance_pd(st, dose_amount, dose_route, dose_parameters, cl, pd_model) ==
    LET s1 == Then(st, new_parameter(st.m, <<"dose">>, dose_amount))
        s2 == Then(s1, dosing_step(s1.m, dose_route, dose_parameters))
        s3 == Then(s2, clearance_step(s2.m, cl))
    IN Then(s3, pd_step(s3.m, pd_model))

\* The arguments of a template, by name.
TemplateArgs(dose_amount, dose_route, dose_parameters, clearance_arg, pd_model) ==
    [dose_amount |-> dose_amount, dose_route |-> dose_route,
     dose_parameters |-> dose_parameters, clearance |-> clearance_arg,
     pd_model |-> pd_model]

\* Model, building on the model there is.
Model_Current(current) == current

\* Model(name): a new, empty model, which takes the place of the current one.
Model(current) == EmptyModel

one_compartment_model(m, a, volume_distribution) ==
    LET s1 == drug_monomer(Model(m), Drug)
        s2 == Then(s1, new_parameter(s1.m, <<"Vd">>, volume_distribution))
        s3 == Then(s2, one_compartment(s2.m, CENTRAL, Par(<<"Vd">>)))
    IN dose_clearance_pd(s3, a.dose_amount, a.dose_route, a.dose_parameters,
                         a.clearance, a.pd_model)

two_compartment_model(m, a, volume_central, volume_peripheral, k12, k21) ==
    LET s1 == drug_monomer(Model(m), Drug)
        s2 == Then(s1, new_parameter(s1.m, <<"Vc">>, volume_central))
        s3 == Then(s2, new_parameter(s2.m, <<"Vp">>, volume_peripheral))
        s4 == Then(s3, two_compartments(s3.m, CENTRAL, Par(<<"Vc">>),
                                        PERIPHERAL, Par(<<"Vp">>)))
        s5 == dose_clearance_pd(s4, a.dose_amount, a.dose_route,
                                a.dose_parameters, a.clearance, a.pd_model)
    IN Then(s5, distribute(s5.m, MonomerNamed(s5.m, Drug),
                           CompartmentNamed(s5.m, CENTRAL),
                           CompartmentNamed(s5.m, PERIPHERAL),
                           <<Num(k12), Num(k21)>>))

three_compartment_model(m, a, volume_central, volume_peripheral, volume_deep_peripheral, k12, k21, k13, k31) ==
    LET s1 == drug_monomer(Model(m), Drug)
        s2 == Then(s1, new_parameter(s1.m, <<"Vc">>, volume_central))
        s3 == Then(s2, new_parameter(s2.m, <<"Vp">>, volume_peripheral))
        s4 == Then(s3, new_parameter(s3.m, <<"Vdp">>, volume_deep_peripheral))
        s5 == Then(s4, three_compartments(s4.m, CENTRAL, Par(<<"Vc">>),
                                          PERIPHERAL, Par(<<"Vp">>),
                                          DEEPPERIPHERAL, Par(<<"Vdp">>)))
        s6 == dose_clearance_pd(s5, a.dose_amount, a.dose_route,
                                a.dose_parameters, a.clearance, a.pd_model)
        s7 == Then(s6, distribute(s6.m, MonomerNamed(s6.m, Drug),
                                  CompartmentNamed(s6.m, CENTRAL),
                                  CompartmentNamed(s6.m, PERIPHERAL),
                                  <<Num(k12), Num(k21)>>))
    IN Then(s7, distribute(s7.m, MonomerNamed(s7.m, Drug),
                           CompartmentNamed(s7.m, CENTRAL),
                           CompartmentNamed(s7.m, DEEPPERIPHERAL),
                           <<Num(k13), Num(k31)>>))

\* Inputs of the templates: the routes and PD models of the registries and
\* one key that is in neither, the dose parameters of the oral route or
\* none, no clearance or the default one; volumes and distribution rates
\* stay at their defaults.
DoseRoutes == DOMAIN DOSING_OPTIONS \cup {"im"}
DoseParameters ==
    {NoneArg, Dict(("ka" :> Rational(1, 100)) @@ ("f" :> Rational(3, 4)))}
Clearances == {Rational(-1, 2), Rational(0, 1), Rational(1, 2)}

\* The keyword arguments the registry lists for a PD model, each 1.0.
RegistryKwargs(key) == [n \in SeqRange(PD_MODEL_ARGS[key]) |-> Rational(1, 1)]

PdModels ==
    {NoneArg}
        \cup {Dict(<< <<key, RegistryKwargs(key)>> >>) : key \in DOMAIN PD_MODELS}
        \cup {Dict(<< <<"log-linear", RegistryKwargs("log-linear")
                                         @@ ("base" :> Rational(10, 1))>> >>),
              Dict(<< <<"linear", ("slope" :> Rational(1, 1))>> >>),
              Dict(<< <<"sigmoidal-emax", RegistryKwargs("emax")>> >>),
              Dict(<< <<"hill", RegistryKwargs("emax")>> >>)}

TemplateInit ==
    /\ model = EmptyModel
    /\ hist = <<>>

\* One template call: Model() makes a new model, which the template fills
\* and returns unless one of its steps raises.
Build(op, dose_route, dose_parameters, clearance_arg, pd_model, res) ==
    /\ Len(hist) < MaxBuilds
    /\ model' = res.m
    /\ hist' = Append(hist, [op |-> op, sp |-> Drug, comps |-> <<CENTRAL>>,
                             args |-> [dose_route |-> dose_route,
                                       dose_parameters |-> dose_parameters,
                                       clearance |-> clearance_arg,
                                       pd_model |-> pd_model],
                             ok |-> res.ok, err |-> res.err,
                             ret |-> IF res.ok THEN {res.m} ELSE {},
                             pre |-> model])

\* standard.one_compartment_model(dose_amount=100.0, ...), and the like:
\* the templates with the dose of 100 and the default volumes and rates.
model_1(m, dose_route, dose_parameters, clearance_arg, pd_model) ==
    one_compartment_model(m,
        TemplateArgs(Rational(100, 1), dose_route, dose_parameters,
                     clearance_arg, pd_model),
        Rational(1, 1))

model_2(m, dose_route, dose_parameters, clearance_arg, pd_model) ==
    two_compartment_model(m,
        TemplateArgs(Rational(100, 1), dose_route, dose_parameters,
                     clearance_arg, pd_model),
        Rational(1, 1), Rational(1, 1), Rational(1, 10), Rational(1, 100))

model_3(m, dose_route, dose_parameters, clearance_arg, pd_model) ==
    three_compartment_model(m,
        TemplateArgs(Rational(100, 1), dose_route, dose_parameters,
                     clearance_arg, pd_model),
        Rational(1, 1), Rational(1, 1), Rational(1, 1),
        Rational(1, 10), Rational(1, 100), Rational(1, 1000),
        Rational(1, 10000))

OneCompartmentModel ==
    \E dose_route \in DoseRoutes : \E dose_parameters \in DoseParameters :
    \E clearance_arg \in Clearances : \E pd_model \in PdModels :
        Build("one_compartment_model", dose_route, dose_parameters,
              clearance_arg, pd_model,
              model_1(model, dose_route, dose_parameters, clearance_arg,
                      pd_model))

TwoCompartmentModel ==
    \E dose_route \in DoseRoutes : \E dose_parameters \in DoseParameters :
    \E clearance_arg \in Clearances : \E pd_model \in PdModels :
        Build("two_compartment_model", dose_route, dose_parameters,
              clearance_arg, pd_model,
              model_2(model, dose_route, dose_parameters, clearance_arg,
                      pd_model))

ThreeCompartmentModel ==
    \E dose_route \in DoseRoutes : \E dose_parameters \in DoseParameters :
    \E clearance_arg \in Clearances : \E pd_model \in PdModels :
        Build("three_compartment_model", dose_route, dose_parameters,
              clearance_arg, pd_model,
              model_3(model, dose_route, dose_parameters, clearance_arg,
                      pd_model))

TemplateNext ==
    \/ OneCompartmentModel
    \/ TwoCompartmentModel
    \/ ThreeCompartmentModel

TemplateSpec == TemplateInit /\ [][TemplateNext]_vars

-----------------------------------------------------------------------------
(* Constructor calls and template calls in one session *)

\* The dosing of a template call: a route with the dose parameters it takes.
PresetDoses ==
    {<<"iv-bolus", NoneArg>>,
     <<"oral", Dict(("ka" :> Rational(1, 100)) @@ ("f" :> Rational(3, 4)))>>}

\* The PD models of a template call: none, or the two Emax models together,
\* in either order.
PresetPdModels ==
    {NoneArg,
     Dict(<< <<"emax", RegistryKwargs("emax")>>,
             <<"sigmoidal-emax", RegistryKwargs("sigmoidal-emax")>> >>),
     Dict(<< <<"sigmoidal-emax", RegistryKwargs("sigmoidal-emax")>>,
             <<"emax", RegistryKwargs("emax")>> >>)}

\* One template call among constructor calls: the model it makes becomes the
\* model the calls after it add to.
Preset(op, dose, pd_model, res) ==
    /\ Len(hist) < MaxCalls
    /\ model' = res.m
    /\ hist' = Append(hist, [op |-> op, sp |-> Drug, comps |-> <<CENTRAL>>,
                             args |-> [dose_route |-> dose[1],
                                       dose_parameters |-> dose[2],
                                       clearance |-> Rational(1, 2),
                                       pd_model |-> pd_model],
                             ok |-> res.ok, err |-> res.err,
                             ret |-> IF res.ok THEN {res.m} ELSE {},
                             pre |-> model])

PresetOneCompartment ==
    \E dose \in PresetDoses : \E pd_model \in PresetPdModels :
        Preset("one_compartment_model", dose, pd_model,
               model_1(model, dose[1], dose[2], Rational(1, 2), pd_model))

PresetTwoCompartment ==
    \E dose \in PresetDoses : \E pd_model \in PresetPdModels :
        Preset("two_compartment_model", dose, pd_model,
               model_2(model, dose[1], dose[2], Rational(1, 2), pd_model))

PresetThreeCompartment ==
    \E dose \in PresetDoses : \E pd_model \in PresetPdModels :
        Preset("three_compartment_model", dose, pd_model,
               model_3(model, dose[1], dose[2], Rational(1, 2), pd_model))

AssemblyNext ==
    \/ Next
    \/ PresetOneCompartment
    \/ PresetTwoCompartment
    \/ PresetThreeCompartment

AssemblySpec == Init /\ [][AssemblyNext]_vars

-----------------------------------------------------------------------------
(* The species argument in its forms *)

\* Number of calls made with a species in one of its forms.
MaxSpeciesCalls == 1

\* What a species argument can be: a monomer of the model, a pattern of it,
\* or a pattern of it in a compartment of the model.
SpeciesArguments(m) ==
    {Species(m.monomers[i].name, f) :
         i \in DOMAIN m.monomers, f \in {"Monomer", "MonomerPattern"}}
        \cup {SpeciesIn(m.monomers[i].name, m.compartments[j].name) :
                  i \in DOMAIN m.monomers, j \in DOMAIN m.compartments}

\* The constructor of that name, on a species, compartments cs and values a.
Apply(op, m, species, cs, a) ==
    CASE op = "eliminate" -> eliminate(m, species, cs[1], a[1])
      [] op = "eliminate_mm" -> eliminate_mm(m, species, cs[1], a[1], a[2])
      [] op = "clearance" -> clearance(m, species, cs[1], a[1])
      [] op = "distribute" -> distribute(m, species, cs[1], cs[2], a)
      [] op = "transfer" -> transfer(m, species, cs[1], cs[2], a[1])
      [] op = "emax" -> emax(m, species, cs[1], a[1], a[2])
      [] op = "sigmoidal_emax" ->
             sigmoidal_emax(m, species, cs[1], a[1], a[2], a[3])
      [] op = "linear_effect" -> linear_effect(m, species, cs[1], a[1], a[2])
      [] op = "loglinear_effect" ->
             loglinear_effect(m, species, cs[1], a[1], a[2], a[3])
      [] op = "fixed_effect" -> fixed_effect(m, species, cs[1], a[1], a[2])
      [] op = "dose_bolus" -> dose_bolus(m, species, cs[1], a[1])
      [] op = "dose_infusion" -> dose_infusion(m, species, cs[1], a[1])
      [] op = "dose_absorbed" ->
             dose_absorbed(m, species, cs[1], a[1], a[2], a[3])

SpeciesInit ==
    /\ model \in {BaseModel, TaggedModel}
    /\ hist = <<>>

\* One call with a species argument, recorded with the argument as passed.
CallOn(op, species, cs, a) ==
    LET res == Apply(op, model, species, cs, a)
    IN /\ Len(hist) < MaxSpeciesCalls
       /\ model' = res.m
       /\ hist' = Append(hist, [op |-> op, sp |-> monomer_name(species),
                                species |-> species,
                                comps |-> [k \in DOMAIN cs |-> cs[k].name],
                                args |-> a, ok |-> res.ok, err |-> res.err,
                                ret |-> res.ret, pre |-> model])

\* A call of a constructor of one compartment, with numbers for its values.
CallIn(op, a) ==
    \E s \in SpeciesArguments(model) : \E c \in CompartmentsOf(model) :
        CallOn(op, s, <<c>>, a)

\* A call of a constructor of two compartments.
CallBetween(op, a) ==
    \E s \in SpeciesArguments(model) :
    \E c1 \in CompartmentsOf(model) : \E c2 \in CompartmentsOf(model) \ {c1} :
        CallOn(op, s, <<c1, c2>>, a)

EliminateSpecies == CallIn("eliminate", <<Num(1)>>)
EliminateMMSpecies == CallIn("eliminate_mm", <<Num(10), Num(100)>>)
ClearanceSpecies == CallIn("clearance", <<Num(10)>>)
DistributeSpecies == CallBetween("distribute", <<Num(1), Num(2)>>)
TransferSpecies == CallBetween("transfer", <<Num(1)>>)
EmaxSpecies == CallIn("emax", <<Num(10), Num(100)>>)
SigmoidalEmaxSpecies == CallIn("sigmoidal_emax", <<Num(10), Num(100), Num(2)>>)
LinearEffectSpecies == CallIn("linear_effect", <<Num(1), Num(0)>>)
LoglinearEffectSpecies == CallIn("loglinear_effect", <<Num(1), Num(0), NoneArg>>)
FixedEffectSpecies == CallIn("fixed_effect", <<Num(1), Num(25)>>)
DoseBolusSpecies == CallIn("dose_bolus", <<Num(100)>>)
DoseInfusionSpecies == CallIn("dose_infusion", <<Num(2)>>)
DoseAbsorbedSpecies == CallIn("dose_absorbed", <<Num(10), Num(1), Num(1)>>)

SpeciesNext ==
    \/ EliminateSpecies
    \/ EliminateMMSpecies
    \/ ClearanceSpecies
    \/ DistributeSpecies
    \/ TransferSpecies
    \/ EmaxSpecies
    \/ SigmoidalEmaxSpecies
    \/ LinearEffectSpecies
    \/ LoglinearEffectSpecies
    \/ FixedEffectSpecies
    \/ DoseBolusSpecies
    \/ DoseInfusionSpecies
    \/ DoseAbsorbedSpecies

SpeciesSpec == SpeciesInit /\ [][SpeciesNext]_vars

-----------------------------------------------------------------------------
(* The value of an effect expression *)

\* Number of effect constructors called in one run.
MaxEffects == 1

\* The value of a symbolic expression in a model, when the observable it
\* reads has the value obs: a Parameter stands for its value, a relation for
\* its truth, and Piecewise((value, cond), (otherwise, True)) for value where
\* cond holds and for otherwise elsewhere.
RECURSIVE Evaluate(_, _, _)
Evaluate(e, m, obs) ==
    CASE e[1] = "Number" -> e[2]
      [] e[1] = "Parameter" ->
             (CHOOSE p \in SeqRange(m.parameters) : p.name = e[2]).value
      [] e[1] = "Observable" -> obs
      [] e[1] = "Gt" -> Evaluate(e[2], m, obs) > Evaluate(e[3], m, obs)
      [] e[1] = "Ge" -> Evaluate(e[2], m, obs) >= Evaluate(e[3], m, obs)
      [] e[1] = "Piecewise" ->
             IF Evaluate(e[3], m, obs) THEN Evaluate(e[2], m, obs)
             ELSE Evaluate(e[4], m, obs)

\* The effects and thresholds fixed_effect is given.
EffectValues == -2..7
Thresholds == 0..9

EffectInit ==
    /\ model = BaseModel
    /\ hist = <<>>

FixedEffectOf ==
    \E c \in CompartmentsOf(model) :
    \E e_fixed \in EffectValues : \E c_threshold \in Thresholds :
        LET res == fixed_effect(model, Species(Drug, "Monomer"), c,
                                Num(e_fixed), Num(c_threshold))
        IN /\ Len(hist) < MaxEffects
           /\ model' = res.m
           /\ hist' = Append(hist, [op |-> "fixed_effect", sp |-> Drug,
                                    comps |-> <<c.name>>,
                                    args |-> <<Num(e_fixed), Num(c_threshold)>>,
                                    ok |-> res.ok, err |-> res.err,
                                    ret |-> res.ret, pre |-> model])

EffectNext == FixedEffectOf

EffectSpec == EffectInit /\ [][EffectNext]_vars

-----------------------------------------------------------------------------
(* Reading a run: what each recorded call added to the model *)

Calls == DOMAIN hist

\* The model as call i left it.
Post(i) == IF i = Len(hist) THEN model ELSE hist[i + 1].pre

\* The components of one kind that call i appended.
New(i, kind) ==
    SubSeq(Post(i)[kind], Len(hist[i].pre[kind]) + 1, Len(Post(i)[kind]))

\* Call i left the components of that kind as they were.
Same(i, kind) == Post(i)[kind] = hist[i].pre[kind]

\* The compartment object that call i was given as its k-th compartment.
CompartmentArg(i, k) ==
    CHOOSE c \in CompartmentsOf(hist[i].pre) : c.name = hist[i].comps[k]

\* species ** compartment of call i.
PatternOf(i) == [monomer |-> hist[i].sp, compartment |-> hist[i].comps[1]]

\* <species>_<compartment> of call i.
SC(i) == hist[i].sp \o hist[i].comps[1]

\* The value-or-parameter arguments of call i (the log base is not one).
ValueArgs(i) ==
    {j \in DOMAIN hist[i].args : hist[i].args[j].kind \in {"num", "param"}
                                  /\ ~(hist[i].op = "loglinear_effect" /\ j = 3)}
NumericArgs(i) == {j \in ValueArgs(i) : hist[i].args[j].kind = "num"}
AllNumeric(i) == NumericArgs(i) = ValueArgs(i)

\* The name the j-th argument of call i goes by in the model after the call.
ArgName(i, j, synthesized) ==
    IF hist[i].args[j].kind = "param" THEN hist[i].args[j].name ELSE synthesized

\* A symbolic expression has the leaf r.
RECURSIVE Mentions(_, _)
Mentions(e, r) ==
    \/ e[1] = r[1] /\ e = r
    \/ /\ e[1] \notin {"Parameter", "Expression", "Observable", "Number", "None"}
       /\ \E k \in 2..Len(e) : Mentions(e[k], r)

\* A component that call i added refers to the Parameter named n.
Uses(i, n) ==
    \/ \E k \in DOMAIN New(i, "compartments") : New(i, "compartments")[k].size = n
    \/ \E k \in DOMAIN New(i, "rules") :
           \/ New(i, "rules")[k].rate_forward = ParameterRef(n)
           \/ New(i, "rules")[k].rate_reverse = ParameterRef(n)
    \/ \E k \in DOMAIN New(i, "expressions") :
           Mentions(New(i, "expressions")[k].expr, ParameterRef(n))

\* The token sequence part occurs in name.
Contains(name, part) ==
    \E k \in 0..(Len(name) - Len(part)) : SubSeq(name, k + 1, k + Len(part)) = part

\* The names of the components call i added.
NewNames(i) ==
    Names(New(i, "monomers")) \cup Names(New(i, "compartments"))
        \cup Names(New(i, "parameters")) \cup Names(New(i, "observables"))
        \cup Names(New(i, "expressions")) \cup Names(New(i, "rules"))

Constructors ==
    {"one_compartment", "two_compartments", "three_compartments", "eliminate",
     "eliminate_mm", "clearance", "distribute", "transfer", "emax",
     "sigmoidal_emax", "linear_effect", "loglinear_effect", "fixed_effect",
     "dose_bolus", "dose_infusion", "dose_absorbed"}

PDConstructors ==
    {"emax", "sigmoidal_emax", "linear_effect", "loglinear_effect", "fixed_effect"}

-----------------------------------------------------------------------------
(* C1 *)

\* C1: reuse invariant. In every call of a constructor, an argument that is
\* an existing Parameter gets no new parameter: a call that returns has
\* created exactly one parameter per numeric argument (a call that raises, at
\* most that many), and a component it created refers to the passed Parameter
\* by its own name.
C1_ReuseInvariant ==
    \A i \in Calls :
        hist[i].op \in Constructors =>
            /\ Len(New(i, "parameters")) <= Cardinality(NumericArgs(i))
            /\ hist[i].ok =>
                  /\ Len(New(i, "parameters")) = Cardinality(NumericArgs(i))
                  /\ \A j \in ValueArgs(i) :
                         hist[i].args[j].kind = "param" =>
                             /\ Uses(i, hist[i].args[j].name)
                             /\ hist[i].args[j].name \notin NewNames(i)

\* A call that was given the user's Parameter for one argument and a number
\* for the other, and returned.
C1_Witness ==
    \E i \in Calls :
        /\ hist[i].op = "eliminate_mm"
        /\ hist[i].ok
        /\ hist[i].args[1] = Par(P1)
        /\ hist[i].args[2].kind = "num"

-----------------------------------------------------------------------------
(* C2 *)

ElimClearPD ==
    {"eliminate", "eliminate_mm", "clearance"} \cup PDConstructors

\* The first two calls on a model are the same elimination, clearance or PD
\* constructor, for the same species and two different compartments, with
\* numeric arguments, and the first returned.
SameConstructorTwoCompartments ==
    /\ Len(hist) >= 2
    /\ hist[1].op \in ElimClearPD
    /\ hist[2].op = hist[1].op
    /\ hist[2].sp = hist[1].sp
    /\ hist[2].comps # hist[1].comps
    /\ AllNumeric(1) /\ AllNumeric(2)
    /\ hist[1].ok

\* C2 as stated: for every two compartments with different names the second
\* call returns too.
C2_Original == SameConstructorTwoCompartments => hist[2].ok

\* C2 as amended: every name such a call synthesizes contains the compartment
\* name, and when neither compartment name contains an underscore (it is one
\* token) the second call returns and the two calls' names are disjoint.
C2_NoCollision ==
    /\ \A i \in Calls :
           hist[i].op \in ElimClearPD /\ AllNumeric(i) =>
               \A n \in NewNames(i) : Contains(n, hist[i].comps[1])
    /\ (SameConstructorTwoCompartments
           /\ Len(hist[1].comps[1]) = 1 /\ Len(hist[2].comps[1]) = 1)
        => (hist[2].ok /\ NewNames(1) \cap NewNames(2) = {})

C2_Witness ==
    /\ SameConstructorTwoCompartments
    /\ hist[1].op = "eliminate"
    /\ hist[1].comps = <<CENTRAL>> /\ hist[2].comps = <<PERIPHERAL>>
    /\ hist[2].ok
    /\ Cardinality(NewNames(1) \cup NewNames(2)) = 4

-----------------------------------------------------------------------------
(* C3 *)

\* C3: dose_absorbed called for two different (species, compartment) pairs
\* in one model returns both times, with no name collision.
C3_AbsorbedTwice ==
    (/\ Len(hist) >= 2
     /\ hist[1].op = "dose_absorbed" /\ hist[2].op = "dose_absorbed"
     /\ <<hist[1].sp, hist[1].comps>> # <<hist[2].sp, hist[2].comps>>
     /\ hist[1].ok)
        => hist[2].ok

-----------------------------------------------------------------------------
(* C4 *)

\* C4: a clearance call that returns has added exactly one expression, whose
\* formula is cl divided by the size parameter of the compartment passed in,
\* and exactly one irreversible rule species**compartment >> None whose rate
\* is that expression; its only new parameter is CL_<species>_<compartment>,
\* created when cl is a number; nothing else is added.
C4_Clearance ==
    \A i \in Calls :
        hist[i].op = "clearance" /\ hist[i].ok =>
            LET exprs == New(i, "expressions")
                rules == New(i, "rules")
                CL == ArgName(i, 1, <<"CL">> \o SC(i))
            IN /\ Len(exprs) = 1
               /\ exprs[1].expr =
                      Div(ParameterRef(CL), ParameterRef(CompartmentArg(i, 1).size))
               /\ Len(rules) = 1
               /\ rules[1].reactant = <<PatternOf(i)>>
               /\ rules[1].product = <<>>
               /\ ~rules[1].reversible
               /\ rules[1].rate_forward = ExpressionRef(exprs[1].name)
               /\ New(i, "parameters") =
                      IF hist[i].args[1].kind = "num"
                      THEN <<[name |-> <<"CL">> \o SC(i),
                              value |-> hist[i].args[1].val]>>
                      ELSE <<>>
               /\ Same(i, "observables") /\ Same(i, "initials")
               /\ Same(i, "monomers") /\ Same(i, "compartments")

\* A clearance call with a numeric cl and one with the user's Parameter.
C4_Witness ==
    \E i \in Calls :
        /\ hist[i].op = "clearance" /\ hist[i].ok
        /\ hist[i].args[1].kind = "param"
        /\ hist[i].comps = <<PERIPHERAL>>

-----------------------------------------------------------------------------
(* C5 *)

\* C5: an eliminate_mm call that returns has added exactly one observable,
\* over species**compartment, exactly one expression, Vmax / (observable + Km),
\* and exactly one depletion rule whose rate is that expression; with numeric
\* vmax and km it has added exactly the two parameters Vmax_<species>_<comp>
\* and Km_<species>_<comp>.
C5_EliminateMM ==
    \A i \in Calls :
        hist[i].op = "eliminate_mm" /\ hist[i].ok =>
            LET obs == New(i, "observables")
                exprs == New(i, "expressions")
                rules == New(i, "rules")
                Vmax == ArgName(i, 1, <<"Vmax">> \o SC(i))
                Km == ArgName(i, 2, <<"Km">> \o SC(i))
            IN /\ Len(obs) = 1
               /\ obs[1].pattern = PatternOf(i)
               /\ Len(exprs) = 1
               /\ exprs[1].expr =
                      Div(ParameterRef(Vmax),
                          Add(ObservableRef(obs[1].name), ParameterRef(Km)))
               /\ Len(rules) = 1
               /\ rules[1].reactant = <<PatternOf(i)>>
               /\ rules[1].product = <<>>
               /\ ~rules[1].reversible
               /\ rules[1].rate_forward = ExpressionRef(exprs[1].name)
               /\ AllNumeric(i) =>
                      New(i, "parameters") =
                          <<[name |-> <<"Vmax">> \o SC(i),
                             value |-> hist[i].args[1].val],
                            [name |-> <<"Km">> \o SC(i),
                             value |-> hist[i].args[2].val]>>

C5_Witness ==
    \E i \in Calls :
        /\ hist[i].op = "eliminate_mm" /\ hist[i].ok
        /\ AllNumeric(i)
        /\ Len(New(i, "parameters")) = 2

-----------------------------------------------------------------------------
(* C6 *)

-----------------------------------------------------------------------------
(* C7 *)

\* C7: a dose_bolus call that returns has added exactly one expression,
\* dose / compartment size, and exactly one initial condition, binding
\* species**compartment to that expression; it has added no rule; it has
\* added the parameter dose_<species>_<compartment> when dose is a number and
\* no parameter when dose is a Parameter.
C7_DoseBolus ==
    \A i \in Calls :
        hist[i].op = "dose_bolus" /\ hist[i].ok =>
            LET exprs == New(i, "expressions")
                Dose == ArgName(i, 1, <<"dose">> \o SC(i))
            IN /\ Len(exprs) = 1
               /\ exprs[1].expr =
                      Div(ParameterRef(Dose),
                          ParameterRef(CompartmentArg(i, 1).size))
               /\ New(i, "initials") =
                      <<[pattern |-> PatternOf(i),
                         value |-> ExpressionRef(exprs[1].name)]>>
               /\ Same(i, "rules")
               /\ New(i, "parameters") =
                      IF hist[i].args[1].kind = "num"
                      THEN <<[name |-> <<"dose">> \o SC(i),
                              value |-> hist[i].args[1].val]>>
                      ELSE <<>>

\* A dose_bolus call given the user's Parameter as the dose.
C7_Witness ==
    \E i \in Calls :
        /\ hist[i].op = "dose_bolus" /\ hist[i].ok
        /\ hist[i].args[1] = Par(P1)
        /\ Len(New(i, "initials")) = 1

-----------------------------------------------------------------------------
(* C8 *)

\* C8: a dose_infusion call that returns has added exactly one rule, the
\* zero-order production None >> species**compartment, whose rate is an
\* expression, dose / compartment size; it has added exactly one expression
\* and no initial condition.
C8_DoseInfusion ==
    \A i \in Calls :
        hist[i].op = "dose_infusion" /\ hist[i].ok =>
            LET exprs == New(i, "expressions")
                rules == New(i, "rules")
                Dose == ArgName(i, 1, <<"dose">> \o SC(i))
            IN /\ Len(exprs) = 1
               /\ exprs[1].expr =
                      Div(ParameterRef(Dose),
                          ParameterRef(CompartmentArg(i, 1).size))
               /\ Len(rules) = 1
               /\ rules[1].reactant = <<>>
               /\ rules[1].product = <<PatternOf(i)>>
               /\ ~rules[1].reversible
               /\ rules[1].rate_forward = ExpressionRef(exprs[1].name)
               /\ Same(i, "initials")

C8_Witness ==
    \E i \in Calls :
        /\ hist[i].op = "dose_infusion" /\ hist[i].ok
        /\ Len(New(i, "rules")) = 1
        /\ Len(New(i, "expressions")) = 1

-----------------------------------------------------------------------------
(* C9 *)

\* C9: a PD constructor call that returns has added exactly one observable,
\* over species**compartment, exactly one expression, and one parameter per
\* argument given as a number, and has left the rules, initial conditions,
\* monomers and compartments as they were; the log base of loglinear_effect
\* is never made a parameter.
C9_PDFrame ==
    \A i \in Calls :
        hist[i].op \in PDConstructors /\ hist[i].ok =>
            /\ Len(New(i, "observables")) = 1
            /\ New(i, "observables")[1].pattern = PatternOf(i)
            /\ Len(New(i, "expressions")) = 1
            /\ Len(New(i, "parameters")) = Cardinality(NumericArgs(i))
            /\ Same(i, "rules") /\ Same(i, "initials")
            /\ Same(i, "monomers") /\ Same(i, "compartments")
            /\ (hist[i].op = "loglinear_effect" /\ hist[i].args[3].kind = "num")
                   => Mentions(New(i, "expressions")[1].expr,
                               Number(hist[i].args[3].val))

\* loglinear_effect with numeric slope and intercept and the base 2.
C9_Witness ==
    \E i \in Calls :
        /\ hist[i].op = "loglinear_effect" /\ hist[i].ok
        /\ hist[i].args[3] = Num(2)
        /\ AllNumeric(i)
        /\ Len(New(i, "parameters")) = 2

-----------------------------------------------------------------------------
(* C10 *)

\* sigmoidal_emax(Drug, CENTRAL, emax=10.0, ec50=100.0, n=2.0) returned.
SigmoidalEmaxExample(i) ==
    /\ hist[i].op = "sigmoidal_emax" /\ hist[i].ok
    /\ hist[i].sp = Drug /\ hist[i].comps = <<CENTRAL>>
    /\ hist[i].args = <<Num(10), Num(100), Num(2)>>

\* C10 as stated: the call adds exactly 4 parameters, 1 observable,
\* 1 expression and 0 rules.
C10_Original ==
    \A i \in Calls :
        SigmoidalEmaxExample(i) =>
            /\ Len(New(i, "parameters")) = 4
            /\ Len(New(i, "observables")) = 1
            /\ Len(New(i, "expressions")) = 1
            /\ Len(New(i, "rules")) = 0

\* C10 as amended: the call adds exactly 3 parameters (Emax, EC50 and n of
\* Drug in CENTRAL, holding 10, 100 and 2), 1 observable, 1 expression and
\* 0 rules.
C10_SigmoidalEmax ==
    \A i \in Calls :
        SigmoidalEmaxExample(i) =>
            /\ New(i, "parameters") =
                   <<[name |-> <<"Emax", "Drug", "CENTRAL">>, value |-> 10],
                     [name |-> <<"EC50", "Drug", "CENTRAL">>, value |-> 100],
                     [name |-> <<"n", "Drug", "CENTRAL">>, value |-> 2]>>
            /\ Len(New(i, "observables")) = 1
            /\ Len(New(i, "expressions")) = 1
            /\ Len(New(i, "rules")) = 0

C10_Witness ==
    \E i \in Calls :
        /\ SigmoidalEmaxExample(i)
        /\ Len(hist[i].pre.monomers) = 1
        /\ Len(New(i, "parameters")) = 3

-----------------------------------------------------------------------------
(* Reading a run of template calls *)

Templates ==
    {"one_compartment_model", "two_compartment_model", "three_compartment_model"}

\* The same template on other arguments.
Template(m, op, dose_route, dose_parameters, clearance_arg, pd_model) ==
    IF op = "one_compartment_model"
    THEN model_1(m, dose_route, dose_parameters, clearance_arg, pd_model)
    ELSE IF op = "two_compartment_model"
    THEN model_2(m, dose_route, dose_parameters, clearance_arg, pd_model)
    ELSE model_3(m, dose_route, dose_parameters, clearance_arg, pd_model)

\* How many components of each kind a model has.
Count(m) ==
    [monomers |-> Len(m.monomers), compartments |-> Len(m.compartments),
     parameters |-> Len(m.parameters), observables |-> Len(m.observables),
     expressions |-> Len(m.expressions), rules |-> Len(m.rules),
     initials |-> Len(m.initials)]

\* Drug() ** CENTRAL
DrugInCentral == [monomer |-> Drug, compartment |-> CENTRAL]

\* Call i is that template with an iv-bolus dose, no dose parameters, the
\* default clearance and no PD model.
DefaultCall(i, op) ==
    /\ hist[i].op = op
    /\ hist[i].args.dose_route = "iv-bolus"
    /\ hist[i].args.dose_parameters = NoneArg
    /\ hist[i].args.clearance = Rational(1, 2)
    /\ hist[i].args.pd_model = NoneArg

-----------------------------------------------------------------------------
(* C11 *)

\* C11: one_compartment_model with an iv-bolus dose of 100, volume 1.0,
\* clearance 0.5 and no PD model returns a model of exactly 1 monomer, 1
\* compartment, the 3 parameters Vd, dose and CL that the template itself
\* declares (no constructor adds one), the 2 expressions dose/Vd and CL/Vd,
\* 1 rule (the depletion of Drug in CENTRAL at the rate CL/Vd) and 1 initial
\* condition (Drug in CENTRAL at dose/Vd).
C11_OneCompartmentDefault ==
    \A i \in Calls :
        DefaultCall(i, "one_compartment_model") =>
            LET m == Post(i)
            IN /\ hist[i].ok /\ hist[i].ret = {m}
               /\ m.monomers = <<[name |-> Drug]>>
               /\ m.compartments = <<[name |-> CENTRAL, size |-> <<"Vd">>]>>
               /\ m.parameters =
                      <<[name |-> <<"Vd">>, value |-> Rational(1, 1)],
                        [name |-> <<"dose">>, value |-> Rational(100, 1)],
                        [name |-> <<"CL">>, value |-> Rational(1, 2)]>>
               /\ m.observables = <<>>
               /\ Len(m.expressions) = 2
               /\ m.expressions[1].expr =
                      Div(ParameterRef(<<"dose">>), ParameterRef(<<"Vd">>))
               /\ m.expressions[2].expr =
                      Div(ParameterRef(<<"CL">>), ParameterRef(<<"Vd">>))
               /\ Len(m.rules) = 1
               /\ m.rules[1].reactant = <<DrugInCentral>>
               /\ m.rules[1].product = <<>>
               /\ ~m.rules[1].reversible
               /\ m.rules[1].rate_forward = ExpressionRef(m.expressions[2].name)
               /\ m.initials = <<[pattern |-> DrugInCentral,
                                  value |-> ExpressionRef(m.expressions[1].name)]>>

\* The template has been called so, and has returned its model.
C11_Witness ==
    \E i \in Calls : DefaultCall(i, "one_compartment_model") /\ hist[i].ok

-----------------------------------------------------------------------------
(* C12 *)

\* The model has one reversible rule between Drug in CENTRAL and Drug in the
\* compartment c, at two rate parameters named after the rule (_kf, _kr),
\* and c has one parameter of the model for its size.
DistributesTo(m, c) ==
    /\ Cardinality({k \in DOMAIN m.rules :
                        /\ m.rules[k].reversible
                        /\ m.rules[k].reactant = <<DrugInCentral>>
                        /\ m.rules[k].product =
                               <<[monomer |-> Drug, compartment |-> c]>>
                        /\ m.rules[k].rate_forward =
                               ParameterRef(m.rules[k].name \o <<"kf">>)
                        /\ m.rules[k].rate_reverse =
                               ParameterRef(m.rules[k].name \o <<"kr">>)
                        /\ m.rules[k].name \o <<"kf">> \in Names(m.parameters)
                        /\ m.rules[k].name \o <<"kr">> \in Names(m.parameters)})
           = 1
    /\ \E j \in DOMAIN m.compartments :
           /\ m.compartments[j].name = c
           /\ m.compartments[j].size \in Names(m.parameters)
           /\ \A j2 \in DOMAIN m.compartments :
                  j2 # j => m.compartments[j2].size # m.compartments[j].size

\* C12: with the default arguments the two-compartment template returns a
\* model of 2 compartments, 6 parameters, 2 rules, 2 expressions, 1 initial
\* and 1 monomer, the three-compartment template one of 3 compartments, 9
\* parameters, 3 rules, 2 expressions, 1 initial and 1 monomer; that is,
\* next to the one-compartment model, one volume parameter, one reversible
\* distribution rule from CENTRAL and its two new rate parameters for each
\* further compartment.
C12_TwoThreeDefault ==
    \A i \in Calls :
        /\ DefaultCall(i, "two_compartment_model") =>
               /\ hist[i].ok
               /\ Count(Post(i)) =
                      [monomers |-> 1, compartments |-> 2, parameters |-> 6,
                       observables |-> 0, expressions |-> 2, rules |-> 2,
                       initials |-> 1]
               /\ DistributesTo(Post(i), PERIPHERAL)
        /\ DefaultCall(i, "three_compartment_model") =>
               /\ hist[i].ok
               /\ Count(Post(i)) =
                      [monomers |-> 1, compartments |-> 3, parameters |-> 9,
                       observables |-> 0, expressions |-> 2, rules |-> 3,
                       initials |-> 1]
               /\ DistributesTo(Post(i), PERIPHERAL)
               /\ DistributesTo(Post(i), DEEPPERIPHERAL)
        /\ \A op \in {"two_compartment_model", "three_compartment_model"} :
               DefaultCall(i, op) =>
                   LET one == model_1(hist[i].pre, "iv-bolus", NoneArg,
                                      Rational(1, 2), NoneArg).m
                       extra == Count(Post(i)).compartments - 1
                   IN /\ Count(Post(i)).parameters =
                             Count(one).parameters + 3 * extra
                      /\ Count(Post(i)).rules = Count(one).rules + extra

\* The three-compartment template has been called with its defaults and has
\* returned its model.
C12_Witness ==
    \E i \in Calls : DefaultCall(i, "three_compartment_model") /\ hist[i].ok

-----------------------------------------------------------------------------
(* C13 *)

\* Call i is a template call whose pd_model is {key: kwargs}.
PdCall(i, key, kwargs) ==
    /\ hist[i].op \in Templates
    /\ hist[i].args.pd_model = Dict(<< <<key, kwargs>> >>)

\* The same template call as call i, without a PD model.
WithoutPd(i) ==
    Template(hist[i].pre, hist[i].op, hist[i].args.dose_route,
             hist[i].args.dose_parameters, hist[i].args.clearance, NoneArg)

\* C13: for each template and each key k of PD_MODELS, a call with pd_model =
\* {k: {every name of PD_MODEL_ARGS[k]: a number}} returns whenever the same
\* call without a PD model does, and its model has exactly
\* len(PD_MODEL_ARGS[k]) more parameters and one more expression, and as many
\* rules, initial conditions and monomers.
C13_PdModelDelta ==
    \A i \in Calls : \A key \in DOMAIN PD_MODELS :
        (PdCall(i, key, RegistryKwargs(key)) /\ WithoutPd(i).ok) =>
            LET with == Count(Post(i))
                without == Count(WithoutPd(i).m)
            IN /\ hist[i].ok
               /\ with.parameters =
                      without.parameters + Len(PD_MODEL_ARGS[key])
               /\ with.expressions = without.expressions + 1
               /\ with.rules = without.rules
               /\ with.initials = without.initials
               /\ with.monomers = without.monomers

\* A three-compartment model with the sigmoidal-emax PD model has been built.
C13_Witness ==
    \E i \in Calls :
        /\ PdCall(i, "sigmoidal-emax", RegistryKwargs("sigmoidal-emax"))
        /\ hist[i].op = "three_compartment_model"
        /\ hist[i].ok

-----------------------------------------------------------------------------
(* C14 *)

\* Call i is a template call by that route with those dose parameters.
RouteCall(i, dose_route, dose_parameters) ==
    /\ hist[i].op \in Templates
    /\ hist[i].args.dose_route = dose_route
    /\ hist[i].args.dose_parameters = dose_parameters

\* The same template call as call i, as an iv-bolus.
AsBolus(i) ==
    Template(hist[i].pre, hist[i].op, "iv-bolus", NoneArg,
             hist[i].args.clearance, hist[i].args.pd_model)

\* The dose parameters of the oral route.
KaF == Dict(("ka" :> Rational(1, 100)) @@ ("f" :> Rational(3, 4)))

\* C14: next to the iv-bolus model of the same template, the iv-infusion
\* model has as many parameters and expressions, one more rule and no initial
\* condition; the oral model with the dose parameters ka and f has two more
\* parameters, one more expression, one more rule, one more monomer and
\* exactly one initial condition.
C14_RouteDelta ==
    \A i \in Calls :
        LET route == Count(Post(i))
            bolus == Count(AsBolus(i).m)
        IN /\ (RouteCall(i, "iv-infusion", NoneArg) /\ AsBolus(i).ok) =>
                  /\ hist[i].ok
                  /\ route.parameters = bolus.parameters
                  /\ route.expressions = bolus.expressions
                  /\ route.rules = bolus.rules + 1
                  /\ route.initials = 0
                  /\ route.monomers = bolus.monomers
           /\ (RouteCall(i, "oral", KaF) /\ AsBolus(i).ok) =>
                  /\ hist[i].ok
                  /\ route.parameters = bolus.parameters + 2
                  /\ route.expressions = bolus.expressions + 1
                  /\ route.rules = bolus.rules + 1
                  /\ route.monomers = bolus.monomers + 1
                  /\ route.initials = 1

\* An oral two-compartment model with clearance has been built.
C14_Witness ==
    \E i \in Calls :
        /\ RouteCall(i, "oral", KaF)
        /\ hist[i].op = "two_compartment_model"
        /\ hist[i].args.clearance = Rational(1, 2)
        /\ hist[i].ok

-----------------------------------------------------------------------------
(* C15 *)

\* Call i is a template call with a dose route that DOSING_OPTIONS lacks.
UnknownRoute(i) ==
    /\ hist[i].op \in Templates
    /\ hist[i].args.dose_route \notin DOMAIN DOSING_OPTIONS

\* Call i is a template call with a pd_model key that PD_MODELS lacks.
UnknownPd(i) ==
    /\ hist[i].op \in Templates
    /\ hist[i].args.pd_model.kind = "dict"
    /\ \E k \in DOMAIN hist[i].args.pd_model.val :
           hist[i].args.pd_model.val[k][1] \notin DOMAIN PD_MODELS

-----------------------------------------------------------------------------
(* C16 *)

\* Call i is a template call with one PD model of the registry whose keyword
\* arguments are not the ones PD_MODEL_ARGS lists for it.
OtherKeywords(i) ==
    /\ hist[i].op \in Templates
    /\ hist[i].args.pd_model.kind = "dict"
    /\ \E k \in DOMAIN hist[i].args.pd_model.val :
           LET key == hist[i].args.pd_model.val[k][1]
               kwargs == hist[i].args.pd_model.val[k][2]
           IN /\ key \in DOMAIN PD_MODELS
              /\ DOMAIN kwargs # SeqRange(PD_MODEL_ARGS[key])

\* C16: the templates validate the keyword arguments of the PD model against
\* PD_MODEL_ARGS: a call whose pd_model entry has an extra keyword ('base'
\* for 'log-linear') or lacks one ('intercept' for 'linear') is rejected, and
\* returns no model.
C16_KeywordsValidated ==
    \A i \in Calls : OtherKeywords(i) => ~hist[i].ok /\ hist[i].ret = {}

-----------------------------------------------------------------------------
(* C17 *)

CompartmentBuilders == {"one_compartment", "two_compartments", "three_compartments"}

\* The names call i needs free: those of its compartments and of the size
\* parameters it is to create.
BuilderNames(i) ==
    SeqRange(hist[i].comps)
        \cup {V(hist[i].comps[k]) : k \in NumericArgs(i)}

\* C17: one_compartment, two_compartments and three_compartments, called on
\* a model that has none of the names involved, return and add exactly their
\* 1, 2, 3 compartments in argument order (by default CENTRAL, PERIPHERAL,
\* DEEPPERIPHERAL); the size of each compartment is the Parameter passed for
\* it or else a new parameter V_<compartment> holding the number passed,
\* whatever the other sizes are; and the returned set is exactly the new
\* compartments and the new parameters.
C17_Compartments ==
    \A i \in Calls :
        hist[i].op \in CompartmentBuilders =>
            LET N == Len(hist[i].comps)
                compartments == New(i, "compartments")
                parameters == New(i, "parameters")
            IN /\ N = (CASE hist[i].op = "one_compartment" -> 1
                         [] hist[i].op = "two_compartments" -> 2
                         [] hist[i].op = "three_compartments" -> 3)
               /\ Len(hist[i].args) = N
               /\ BuilderNames(i) \cap ComponentNames(hist[i].pre) = {}
                      => hist[i].ok
               /\ hist[i].ok =>
                      /\ Len(compartments) = N
                      /\ \A k \in 1..N :
                             /\ compartments[k].name = hist[i].comps[k]
                             /\ compartments[k].size =
                                    ArgName(i, k, V(hist[i].comps[k]))
                             /\ hist[i].args[k].kind = "num" =>
                                    \E j \in DOMAIN parameters :
                                        parameters[j] =
                                            [name |-> V(hist[i].comps[k]),
                                             value |-> hist[i].args[k].val]
                      /\ Len(parameters) = Cardinality(NumericArgs(i))
                      /\ hist[i].ret = Names(compartments) \cup Names(parameters)
                      /\ Same(i, "monomers") /\ Same(i, "observables")
                      /\ Same(i, "expressions") /\ Same(i, "rules")
                      /\ Same(i, "initials")

\* three_compartments has returned, given the user's Parameter for one size
\* and numbers for the others.
C17_Witness ==
    \E i \in Calls :
        /\ hist[i].op = "three_compartments"
        /\ hist[i].ok
        /\ hist[i].comps = <<CENTRAL, PERIPHERAL, DEEPPERIPHERAL>>
        /\ hist[i].args[1].kind = "num"
        /\ hist[i].args[2] = Par(P1)
        /\ hist[i].args[3].kind = "num"

-----------------------------------------------------------------------------
(* C18 *)

\* distribute_<species>_<c1>_to_<c2> of call i.
DistributeName(i) ==
    <<"distribute">> \o hist[i].sp \o hist[i].comps[1] \o <<"to">>
        \o hist[i].comps[2]

\* species ** c of call i, for its k-th compartment.
PatternIn(i, k) == [monomer |-> hist[i].sp, compartment |-> hist[i].comps[k]]

\* C18: distribute(species, c1, c2, [kf, kr]) with two numbers, on a model
\* where the names are free, returns and adds exactly one rule, reversible,
\* between species**c1 and species**c2 and named
\* distribute_<species>_<c1>_to_<c2>, and exactly two parameters, <rule>_kf
\* holding kf as the forward rate and <rule>_kr holding kr as the reverse
\* rate, in that order; it adds no expression, observable or initial.
C18_Distribute ==
    \A i \in Calls :
        (hist[i].op = "distribute" /\ AllNumeric(i)) =>
            LET r_name == DistributeName(i)
                kf == r_name \o <<"kf">>
                kr == r_name \o <<"kr">>
            IN /\ {r_name, kf, kr} \cap ComponentNames(hist[i].pre) = {}
                      => hist[i].ok
               /\ hist[i].ok =>
                      /\ New(i, "rules") =
                             <<[name |-> r_name,
                                reactant |-> <<PatternIn(i, 1)>>,
                                product |-> <<PatternIn(i, 2)>>,
                                reversible |-> TRUE,
                                rate_forward |-> ParameterRef(kf),
                                rate_reverse |-> ParameterRef(kr)]>>
                      /\ New(i, "parameters") =
                             <<[name |-> kf, value |-> hist[i].args[1].val],
                               [name |-> kr, value |-> hist[i].args[2].val]>>
                      /\ hist[i].ret = {r_name, kf, kr}
                      /\ Same(i, "expressions") /\ Same(i, "observables")
                      /\ Same(i, "initials") /\ Same(i, "monomers")
                      /\ Same(i, "compartments")

\* distribute has returned, given two numbers.
C18_Witness ==
    \E i \in Calls :
        /\ hist[i].op = "distribute" /\ AllNumeric(i) /\ hist[i].ok
        /\ hist[i].comps = <<CENTRAL, PERIPHERAL>>

-----------------------------------------------------------------------------
(* C19 *)

\* Call i is distribute with a Parameter for one rate and a number for the
\* other.
MixedRates(i) ==
    /\ hist[i].op = "distribute"
    /\ {hist[i].args[1].kind, hist[i].args[2].kind} = {"param", "num"}

\* C19 as stated: distribute with a Parameter for one rate and a number for
\* the other returns, and creates exactly one parameter, for the number.
C19_Original ==
    \A i \in Calls :
        (MixedRates(i) /\ DistributeName(i) \notin ComponentNames(hist[i].pre)) =>
            hist[i].ok /\ Len(New(i, "parameters")) = 1

\* C19: the two rates of distribute are taken together. Given two
\* Parameters, the call (on a model where the rule name is free) returns,
\* creates no parameter and gives the rule those two Parameters as its
\* forward and reverse rates; given a Parameter and a number, it raises
\* ValueError and leaves the model as it was.
C19_RatesTogether ==
    \A i \in Calls :
        hist[i].op = "distribute" =>
            /\ (hist[i].args[1].kind = "param" /\ hist[i].args[2].kind = "param") =>
                   /\ DistributeName(i) \notin ComponentNames(hist[i].pre)
                          => hist[i].ok
                   /\ hist[i].ok =>
                          /\ Same(i, "parameters")
                          /\ Len(New(i, "rules")) = 1
                          /\ New(i, "rules")[1].rate_forward =
                                 ParameterRef(hist[i].args[1].name)
                          /\ New(i, "rules")[1].rate_reverse =
                                 ParameterRef(hist[i].args[2].name)
                          /\ hist[i].ret = {DistributeName(i)}
            /\ MixedRates(i) =>
                   /\ ~hist[i].ok /\ hist[i].err = "ValueError"
                   /\ Post(i) = hist[i].pre

\* distribute has been called with the user's Parameter and a number, on a
\* model where its rule name was free.
C19_Witness ==
    \E i \in Calls :
        /\ MixedRates(i)
        /\ DistributeName(i) \notin ComponentNames(hist[i].pre)
        /\ ~hist[i].ok

-----------------------------------------------------------------------------
(* C20 *)

\* The second call repeats the first, a constructor call that returned.
Repeated ==
    /\ Len(hist) >= 2
    /\ hist[1].op \in Constructors
    /\ hist[1].ok
    /\ hist[2].op = hist[1].op
    /\ hist[2].sp = hist[1].sp
    /\ hist[2].comps = hist[1].comps
    /\ hist[2].args = hist[1].args

\* C20: constructors are idempotent: the same constructor called a second
\* time with the same arguments returns, and leaves the model with the
\* components it had after the first call.
C20_Idempotent ==
    Repeated => hist[2].ok /\ Post(2) = Post(1)

-----------------------------------------------------------------------------
(* C21 *)

Kinds ==
    {"monomers", "compartments", "parameters", "observables", "expressions",
     "rules", "initials"}

\* The sequence s is the beginning of the sequence t.
IsPrefix(s, t) == Len(s) <= Len(t) /\ SubSeq(t, 1, Len(s)) = s

\* <species>_<compartment>_precursor of call i.
PrecursorName(i) == SC(i) \o <<"precursor">>

\* C21: there is no rollback. After a constructor call that raised, every
\* component the model had before the call is still there, unchanged and in
\* its place, and what the call had added before it raised is there too: the
\* precursor monomer of a dose_absorbed that raised later, the first size
\* parameter of a two_compartments that raised on the second.
C21_NoRollback ==
    \A i \in Calls :
        (hist[i].op \in Constructors /\ ~hist[i].ok) =>
            /\ hist[i].ret = {}
            /\ \A kind \in Kinds : IsPrefix(hist[i].pre[kind], Post(i)[kind])
            /\ (/\ hist[i].op = "dose_absorbed"
                /\ PrecursorName(i) \notin ComponentNames(hist[i].pre)) =>
                   New(i, "monomers") = <<[name |-> PrecursorName(i)]>>
            /\ (/\ hist[i].op = "two_compartments"
                /\ hist[i].args[1].kind = "num"
                /\ V(hist[i].comps[1]) \notin ComponentNames(hist[i].pre)) =>
                   /\ Len(New(i, "parameters")) >= 1
                   /\ New(i, "parameters")[1] =
                          [name |-> V(hist[i].comps[1]),
                           value |-> hist[i].args[1].val]

\* dose_absorbed has raised on the name of a parameter, after it had added
\* its precursor monomer to a model that had components already.
C21_Witness ==
    \E i \in Calls :
        /\ hist[i].op = "dose_absorbed"
        /\ ~hist[i].ok
        /\ hist[i].err = "ComponentDuplicateNameError"
        /\ Len(New(i, "monomers")) = 1
        /\ Len(New(i, "parameters")) = 0
        /\ Len(hist[i].pre.parameters) > 0

-----------------------------------------------------------------------------
(* C22 *)

\* C22: the component set a constructor returns is exactly the set of the
\* named components the call added to the model.
C22_ReturnedSet ==
    \A i \in Calls :
        (hist[i].op \in Constructors /\ hist[i].ok) => hist[i].ret = NewNames(i)

-----------------------------------------------------------------------------
(* C24 *)

\* C24: eliminate(species, compartment, kel), on a model where the names are
\* free, returns and adds exactly one rule, species**compartment >> None,
\* irreversible and named eliminate_<species>_<compartment>, whose rate is
\* the Parameter passed as kel or else one new parameter
\* eliminate_<species>_<compartment>_k holding the number; it adds no
\* expression, observable or initial condition.
C24_Eliminate ==
    \A i \in Calls :
        hist[i].op = "eliminate" =>
            LET r_name == <<"eliminate">> \o SC(i)
                k_name == r_name \o <<"k">>
                kel == hist[i].args[1]
            IN /\ ({r_name} \cup (IF kel.kind = "num" THEN {k_name} ELSE {}))
                      \cap ComponentNames(hist[i].pre) = {} => hist[i].ok
               /\ hist[i].ok =>
                      /\ New(i, "rules") =
                             <<[name |-> r_name,
                                reactant |-> <<PatternOf(i)>>,
                                product |-> <<>>,
                                reversible |-> FALSE,
                                rate_forward |->
                                    ParameterRef(ArgName(i, 1, k_name)),
                                rate_reverse |-> <<"None">>]>>
                      /\ New(i, "parameters") =
                             (IF kel.kind = "num"
                              THEN <<[name |-> k_name, value |-> kel.val]>>
                              ELSE <<>>)
                      /\ Same(i, "expressions") /\ Same(i, "observables")
                      /\ Same(i, "initials") /\ Same(i, "monomers")
                      /\ Same(i, "compartments")

\* eliminate has returned, given the user's Parameter as kel.
C24_Witness ==
    \E i \in Calls :
        hist[i].op = "eliminate" /\ hist[i].ok /\ hist[i].args[1] = Par(P1)

-----------------------------------------------------------------------------
(* C25 *)

\* C25: assembly is append-only. No step removes a component from the model
\* or changes one that was there: each collection of the model after a call,
\* returned or raised, begins with the collection as it was before.
C25_AppendOnly ==
    [][\A kind \in Kinds : IsPrefix(model[kind], model'[kind])]_vars

\* A call that returned and added to the model, followed by a call that
\* raised after it had added to the model.
C25_Witness ==
    /\ Len(hist) = 2
    /\ hist[1].ok /\ hist[1].pre # Post(1)
    /\ ~hist[2].ok /\ hist[2].pre # Post(2)

-----------------------------------------------------------------------------
(* C23 *)

SpeciesConstructors == Constructors \ CompartmentBuilders

\* The compartments call i was given.
CompartmentArgs(i) == [k \in DOMAIN hist[i].comps |-> CompartmentArg(i, k)]

\* Call i again on the model it was made on, with the bare monomer.
WithMonomer(i) ==
    Apply(hist[i].op, hist[i].pre, Species(hist[i].sp, "Monomer"),
          CompartmentArgs(i), hist[i].args)

\* The patterns of the rules, observables and initial conditions call i
\* added.
NewPatterns(i) ==
    UNION {SeqRange(New(i, "rules")[k].reactant)
               \cup SeqRange(New(i, "rules")[k].product) :
           k \in DOMAIN New(i, "rules")}
        \cup {New(i, "observables")[k].pattern : k \in DOMAIN New(i, "observables")}
        \cup {New(i, "initials")[k].pattern : k \in DOMAIN New(i, "initials")}

\* Call i came to what the call with the bare monomer comes to.
AsWithMonomer(i) ==
    /\ hist[i].ok = WithMonomer(i).ok
    /\ hist[i].err = WithMonomer(i).err
    /\ hist[i].ret = WithMonomer(i).ret
    /\ Post(i) = WithMonomer(i).m

-----------------------------------------------------------------------------
(* C27 *)

\* The largest value of the observable looked at.
ObsMax == 10

\* C27: the expression fixed_effect creates is a step function of the
\* observable: for every value obs of the observable its value is e_fixed
\* when obs > c_threshold and 0 otherwise, so it is 0 at obs = c_threshold.
C27_FixedEffectStep ==
    \A i \in Calls :
        (hist[i].op = "fixed_effect" /\ hist[i].ok) =>
            /\ Len(New(i, "expressions")) = 1
            /\ \A obs \in 0..ObsMax :
                   Evaluate(New(i, "expressions")[1].expr, Post(i), obs) =
                       (IF obs > hist[i].args[2].val THEN hist[i].args[1].val
                        ELSE 0)

\* fixed_effect has returned an effect other than 0 with a threshold that
\* some of the observable's values are above and some below.
C27_Witness ==
    \E i \in Calls :
        /\ hist[i].op = "fixed_effect" /\ hist[i].ok
        /\ hist[i].args[1].val # 0
        /\ hist[i].args[2].val \in 1..(ObsMax - 1)

-----------------------------------------------------------------------------
(* C29 *)

\* A component name of the clearance mechanism: CL, k_CL_expr_<species>_<comp>
\* or clearance_<species>_<comp>.
AboutClearance(name) == \E k \in DOMAIN name : name[k] \in {"CL", "clearance"}

\* The components of a sequence that are not of the clearance mechanism.
WithoutClearance(seq) == SelectSeq(seq, LAMBDA c : ~AboutClearance(c.name))

\* The same template call as call i, with the default clearance of 0.5.
WithClearance(i) ==
    Template(hist[i].pre, hist[i].op, hist[i].args.dose_route,
             hist[i].args.dose_parameters, Rational(1, 2),
             hist[i].args.pd_model)

\* Call i is a template call with a clearance that is zero or negative.
NoClearance(i) ==
    /\ hist[i].op \in Templates
    /\ hist[i].args.clearance.num <= 0

\* C29: a template call with clearance <= 0 returns or raises as the same call
\* with a positive clearance does, and the model it returns has no CL
\* parameter, no clearance rate expression and no clearance rule: it is the
\* model of the call with a positive clearance less these three components,
\* every other component being the same and in the same order.
C29_ClearanceOnlyIfPositive ==
    \A i \in Calls :
        NoClearance(i) =>
            LET with == WithClearance(i)
                m == Post(i)
            IN /\ hist[i].ok = with.ok
               /\ hist[i].err = with.err
               /\ hist[i].ok =>
                      /\ \A name \in ComponentNames(m) : ~AboutClearance(name)
                      /\ \A kind \in Kinds \ {"initials"} :
                             m[kind] = WithoutClearance(with.m[kind])
                      /\ m.initials = with.m.initials
                      /\ Count(m).parameters = Count(with.m).parameters - 1
                      /\ Count(m).expressions = Count(with.m).expressions - 1
                      /\ Count(m).rules = Count(with.m).rules - 1

\* A two-compartment model with oral dosing and a PD model has been built
\* with a negative clearance.
C29_Witness ==
    \E i \in Calls :
        /\ NoClearance(i)
        /\ hist[i].op = "two_compartment_model"
        /\ hist[i].args.clearance.num < 0
        /\ hist[i].args.dose_route = "oral"
        /\ hist[i].args.pd_model # NoneArg
        /\ hist[i].ok
        /\ Len(Post(i).rules) > 0

-----------------------------------------------------------------------------
(* C26 *)

\* The number of named components of a model.
Named(m) ==
    Len(m.monomers) + Len(m.compartments) + Len(m.parameters)
        + Len(m.observables) + Len(m.expressions) + Len(m.rules)

\* C26: in every reachable state, after any sequence of constructor and
\* template calls, those that raised included, no two components of the model
\* share a name: the model has as many names as named components.
C26_UniqueNames == Cardinality(ComponentNames(model)) = Named(model)

\* A constructor call has raised on a duplicate name in a model that a
\* template built.
C26_Witness ==
    \E i \in Calls : \E j \in Calls :
        /\ i < j
        /\ hist[i].op \in Templates
        /\ hist[i].ok
        /\ hist[j].op \in Constructors
        /\ hist[j].err = "ComponentDuplicateNameError"

-----------------------------------------------------------------------------
(* C28 *)

\* The names of the components of a sequence, in its order.
NamesOf(seq) == [k \in DOMAIN seq |-> seq[k].name]

\* Two models have the same component names, kind by kind and in the same
\* order, and the same number of components of every kind.
SameNamesAndCounts(m1, m2) ==
    /\ \A kind \in Kinds \ {"initials"} : NamesOf(m1[kind]) = NamesOf(m2[kind])
    /\ Count(m1) = Count(m2)

\* The same template call as call i, made when no model exists yet.
OnEmpty(i) ==
    Template(EmptyModel, hist[i].op, hist[i].args.dose_route,
             hist[i].args.dose_parameters, hist[i].args.clearance,
             hist[i].args.pd_model)

\* Call j is the template call i made again, with the same arguments.
Again(i, j) ==
    /\ j = i + 1
    /\ hist[i].op \in Templates
    /\ hist[j].op = hist[i].op
    /\ hist[j].args = hist[i].args

\* C28: a template call builds what it builds on an empty model, whatever
\* the model before it holds: no component of the model before it remains
\* (the names and counts are those of the call made first of all) and it
\* returns or raises as that call does. So the same template called twice
\* in succession with the same arguments returns both times when it returns
\* once, with two models of the same component names and counts; without a
\* PD model it does return both times.
C28_FreshModel ==
    \A i \in Calls :
        hist[i].op \in Templates =>
            /\ hist[i].ok = OnEmpty(i).ok
            /\ hist[i].err = OnEmpty(i).err
            /\ SameNamesAndCounts(Post(i), OnEmpty(i).m)
            /\ \A j \in Calls :
                   Again(i, j) =>
                       /\ hist[j].ok = hist[i].ok
                       /\ SameNamesAndCounts(Post(j), Post(i))
                       /\ hist[i].args.pd_model = NoneArg =>
                              hist[i].ok /\ hist[j].ok

\* The three-compartment template has returned twice in succession with the
\* same arguments, the first time on a model that had components.
C28_Witness ==
    \E i \in Calls : \E j \in Calls :
        /\ Again(i, j)
        /\ hist[i].op = "three_compartment_model"
        /\ hist[i].pre # EmptyModel
        /\ hist[i].ok
        /\ hist[j].ok
        /\ Post(j).rules # <<>>

-----------------------------------------------------------------------------
(* C30 *)

EmaxConstructors == {"emax", "sigmoidal_emax"}

\* The names emax and sigmoidal_emax both give to their observable and their
\* expression for a species in a compartment.
EmaxObservable(sc) == <<"", "obs", "emax", "expr">> \o sc
EmaxExpression(sc) == <<"Emax", "expr">> \o sc

\* Call j applies one of the two Emax constructors where call i, before it,
\* has applied one of them and returned: same species, same compartment, and
\* the same model, no template having made a new one in between.
SecondEmax(i, j) ==
    /\ i < j
    /\ \A k \in (i + 1)..(j - 1) : hist[k].op \notin Templates
    /\ hist[i].op \in EmaxConstructors
    /\ hist[j].op \in EmaxConstructors
    /\ hist[i].ok
    /\ hist[i].sp = hist[j].sp
    /\ hist[i].comps = hist[j].comps

\* Call i is a template call whose pd_model has both 'emax' and
\* 'sigmoidal-emax', with the arguments the registry lists.
BothEmax(i) ==
    /\ hist[i].op \in Templates
    /\ hist[i].args.pd_model.kind = "dict"
    /\ {hist[i].args.pd_model.val[k][1] :
            k \in DOMAIN hist[i].args.pd_model.val} = {"emax", "sigmoidal-emax"}

\* C30: emax and sigmoidal_emax make an observable _obs_emax_expr_<sc> and an
\* expression Emax_expr_<sc> of the same names (and parameters Emax_<sc> and
\* EC50_<sc>), so the second of the two applied to a species and compartment
\* raises ComponentDuplicateNameError and the model keeps one observable and
\* one expression of those names, the first call's, whether the two are
\* called directly or through a template whose pd_model has both keys.
C30_EmaxCollision ==
    \A j \in Calls :
        /\ (hist[j].op \in EmaxConstructors /\ hist[j].ok) =>
               LET sc == hist[j].sp \o hist[j].comps[1]
               IN /\ EmaxObservable(sc) \in Names(New(j, "observables"))
                  /\ EmaxExpression(sc) \in Names(New(j, "expressions"))
                  /\ \A a \in NumericArgs(j) :
                         a \in {1, 2} =>
                             <<<<"Emax">>, <<"EC50">>>>[a] \o sc
                                 \in Names(New(j, "parameters"))
        /\ \A i \in Calls :
               SecondEmax(i, j) =>
                   /\ ~hist[j].ok
                   /\ hist[j].err = "ComponentDuplicateNameError"
                   /\ Post(j).expressions = hist[j].pre.expressions
                   /\ Post(j).observables = hist[j].pre.observables
        /\ BothEmax(j) =>
               LET sc == Drug \o CENTRAL
                   first == IF hist[j].args.pd_model.val[1][1] = "emax"
                            THEN emax_effect(<<"Emax">> \o sc, EmaxObservable(sc),
                                             <<"EC50">> \o sc)
                            ELSE sigmoidal_emax_effect(
                                     <<"Emax">> \o sc, EmaxObservable(sc),
                                     <<"EC50">> \o sc, <<"n">> \o sc)
               IN /\ ~hist[j].ok
                  /\ hist[j].err = "ComponentDuplicateNameError"
                  /\ Post(j).expressions[Len(Post(j).expressions)] =
                         [name |-> EmaxExpression(sc), expr |-> first]
                  /\ Cardinality({k \in DOMAIN Post(j).expressions :
                         Post(j).expressions[k].name = EmaxExpression(sc)}) = 1

\* sigmoidal_emax has raised on the duplicate name after emax returned on the
\* same species and compartment, having been given its numbers.
C30_Witness ==
    \E i \in Calls : \E j \in Calls :
        /\ SecondEmax(i, j)
        /\ hist[i].op = "emax"
        /\ hist[j].op = "sigmoidal_emax"
        /\ AllNumeric(i)
        /\ hist[j].err = "ComponentDuplicateNameError"

====
